---- MODULE Spec2Model ----
(***************************************************************************)
(* A model of the speedrunner intent fulfiller: the orchestrator's poll    *)
(* loop, the worker pool, the retry handler, the per-chain circuit breaker *)
(* and the nonce manager, translated from the Go sources.                  *)
(*                                                                         *)
(* Strings that the code parses or formats (intent ids, retry tags) are    *)
(* sequences of one-character strings; error messages, which the code only *)
(* searches for fixed phrases, are sequences of words.  Time is counted in *)
(* seconds.                                                                *)
(***************************************************************************)
EXTENDS Integers, Sequences, FiniteSets, TLC

\* ------------------------------------------------------------------ bounds

\* Number of worker goroutines (config WORKER_COUNT).
NumWorkers == 2
\* Number of poll ticks of Start that find a viable intent.
MaxPolls == 2
\* Capacity of the pendingJobs channel in the model.
PendingCap == 2
\* Capacity of the retryJobs channel in the model.
RetryChanCap == 1
\* The instants, in seconds, at which the clock is read in the model.  The
\* gaps grow as the retry backoff does (10 s, 20 s, 40 s), so that a chain
\* of three retries fits, and they put a reading on the boundary of the
\* breaker's failure window and of its reset timeout.
Instants == <<0, 20, 50, 100>>
\* Circuit breaker configuration (CIRCUIT_BREAKER_THRESHOLD / _WINDOW / _RESET).
FailThreshold == 2
FailureWindow == 20
ResetTimeout == 30

\* --------------------------------------------------------- program constants

\* worker.go: "Only retry up to 3 times".
MaxRetryCount == 3
\* worker.go: backoff = 2^retry * 10 seconds, capped at 2 minutes.
BackoffBase == 10
MaxBackoff == 120
\* worker.go retryHandler: retry queue size limit and per-tick limit.
maxQueueSize == 1000
maxProcessPerTick == 10
\* go-ethereum common.HashLength, the bytes32 of Fulfill's intentId.
HashLength == 32

Workers == 1..NumWorkers
Chains == {137}

Min(a, b) == IF a < b THEN a ELSE b

\* ------------------------------------------------------------------ strings

Digits == <<"0", "1", "2", "3", "4", "5", "6", "7", "8", "9">>
HexLetters == <<"a", "b", "c", "d", "e", "f">>
HexUpper == <<"A", "B", "C", "D", "E", "F">>

IsDigit(c) == \E i \in 1..10 : Digits[i] = c
DigitVal(c) == (CHOOSE i \in 1..10 : Digits[i] = c) - 1

\* encoding/hex reverseHexTable: 0..15 for a hex digit, 16 for any other byte.
HexVal(c) ==
    IF IsDigit(c) THEN DigitVal(c)
    ELSE IF \E i \in 1..6 : HexLetters[i] = c
         THEN 9 + (CHOOSE i \in 1..6 : HexLetters[i] = c)
    ELSE IF \E i \in 1..6 : HexUpper[i] = c
         THEN 9 + (CHOOSE i \in 1..6 : HexUpper[i] = c)
    ELSE 16

\* strings.Index: position of the first occurrence of sep in s, 0 when absent.
Index(s, sep) ==
    LET hits == {i \in 1..Len(s) :
                    /\ i + Len(sep) - 1 <= Len(s)
                    /\ SubSeq(s, i, i + Len(sep) - 1) = sep}
    IN IF hits = {} THEN 0 ELSE CHOOSE i \in hits : \A j \in hits : i <= j

\* strings.Contains
Contains(s, sub) == Index(s, sub) # 0

\* strings.Split(s, sep) for a non-empty sep.
RECURSIVE Split(_, _)
Split(s, sep) ==
    LET i == Index(s, sep)
    IN IF i = 0 THEN <<s>>
       ELSE <<SubSeq(s, 1, i - 1)>> \o Split(SubSeq(s, i + Len(sep), Len(s)), sep)

\* The decimal value of a string of digits.
RECURSIVE DigitsValue(_)
DigitsValue(s) ==
    IF s = <<>> THEN 0
    ELSE 10 * DigitsValue(SubSeq(s, 1, Len(s) - 1)) + DigitVal(s[Len(s)])

\* strconv.Atoi with its error dropped (retryCount, _ = strconv.Atoi(..)):
\* the value of a decimal string, 0 on a syntax error.
Atoi(s) ==
    LET body == IF s # <<>> /\ s[1] \in {"+", "-"} THEN Tail(s) ELSE s
    IN IF body = <<>> \/ \E i \in 1..Len(body) : ~IsDigit(body[i]) THEN 0
       ELSE IF s[1] = "-" THEN 0 - DigitsValue(body)
       ELSE DigitsValue(body)

\* strconv.Itoa / fmt's %d for n >= 0.
RECURSIVE Itoa(_)
Itoa(n) ==
    IF n < 10 THEN <<Digits[n + 1]>>
    ELSE Itoa(n \div 10) \o <<Digits[(n % 10) + 1]>>

\* The separator of the retry tag.
RetrySep == <<"_", "r", "e", "t", "r", "y", "_">>

\* strings.Split(id, "_retry_")[0]
BaseID(id) == Split(id, RetrySep)[1]

\* The retry count the worker reads back from an intent id.
RetryCountOf(id) ==
    LET parts == Split(id, RetrySep)
    IN IF Len(parts) > 1 THEN Atoi(parts[2]) ELSE 0

\* fmt.Sprintf("%s_retry_%d", parts[0], retryCount+1)
RetryID(id, n) == BaseID(id) \o RetrySep \o Itoa(n)

\* ------------------------------------------------------------- HexToHash

\* hex.Decode: bytes of the leading pairs of hex digits; decoding stops at
\* the first pair holding a byte that is no hex digit, and Hex2Bytes drops
\* the error and keeps what was decoded.
RECURSIVE Hex2Bytes_Strict(_)
Hex2Bytes_Strict(s) ==
    IF Len(s) < 2 THEN <<>>
    ELSE IF \E i \in 1..Len(s) : HexVal(s[i]) > 15 THEN <<>>
    ELSE <<16 * HexVal(s[1]) + HexVal(s[2])>> \o Hex2Bytes_Strict(Tail(Tail(s)))

RECURSIVE Hex2Bytes(_)
Hex2Bytes(s) ==
    IF Len(s) < 2 THEN <<>>
    ELSE IF HexVal(s[1]) > 15 \/ HexVal(s[2]) > 15 THEN <<>>
    ELSE <<16 * HexVal(s[1]) + HexVal(s[2])>> \o Hex2Bytes(Tail(Tail(s)))

\* common.FromHex: drop a 0x prefix, pad an odd length with a leading 0.
FromHex(s) ==
    LET t == IF Len(s) >= 2 /\ s[1] = "0" /\ s[2] \in {"x", "X"}
             THEN Tail(Tail(s)) ELSE s
        u == IF Len(t) % 2 = 1 THEN <<"0">> \o t ELSE t
    IN Hex2Bytes(u)

\* common.BytesToHash: crop from the left, pad on the left with zero bytes.
BytesToHash(b) ==
    LET c == IF Len(b) > HashLength
             THEN SubSeq(b, Len(b) - HashLength + 1, Len(b)) ELSE b
    IN [i \in 1..(HashLength - Len(c)) |-> 0] \o c

HexToHash(s) == BytesToHash(FromHex(s))

\* --------------------------------------------------------- circuit breaker

\* The zero time.Time of lastFailure and tripTime: long before the clock starts.
ZeroTime == 0 - 1000000

\* NewCircuitBreaker
NewCircuitBreaker ==
    [failureCount |-> 0, lastFailure |-> ZeroTime,
     tripped |-> FALSE, tripTime |-> ZeroTime]

\* CircuitBreaker.RecordFailure at time t: the breaker afterwards and the
\* value returned.
RecordFailure_NoTripCheck(cb, enabled, t) ==
    IF ~enabled THEN [cb |-> cb, ret |-> FALSE]
    ELSE
      LET c1 == IF cb.tripped
                THEN [cb EXCEPT !.tripped = FALSE, !.failureCount = 0]
                ELSE cb
          c2 == IF t - c1.lastFailure > FailureWindow
                THEN [c1 EXCEPT !.failureCount = 0] ELSE c1
          c3 == [c2 EXCEPT !.failureCount = @ + 1, !.lastFailure = t]
      IN IF c3.failureCount >= FailThreshold
         THEN [cb |-> [c3 EXCEPT !.tripped = TRUE, !.tripTime = t], ret |-> TRUE]
         ELSE [cb |-> c3, ret |-> FALSE]

RecordFailure(cb, enabled, t) ==
    IF ~enabled THEN [cb |-> cb, ret |-> FALSE]
    ELSE IF cb.tripped /\ ~(t - cb.tripTime > ResetTimeout)
    THEN [cb |-> cb, ret |-> TRUE]
    ELSE
      LET c1 == IF cb.tripped
                THEN [cb EXCEPT !.tripped = FALSE, !.failureCount = 0]
                ELSE cb
          c2 == IF t - c1.lastFailure > FailureWindow
                THEN [c1 EXCEPT !.failureCount = 0] ELSE c1
          c3 == [c2 EXCEPT !.failureCount = @ + 1, !.lastFailure = t]
      IN IF c3.failureCount >= FailThreshold
         THEN [cb |-> [c3 EXCEPT !.tripped = TRUE, !.tripTime = t], ret |-> TRUE]
         ELSE [cb |-> c3, ret |-> FALSE]

\* CircuitBreaker.IsOpen at time t: the breaker afterwards and the value
\* returned.
IsOpen(cb, enabled, t) ==
    IF ~enabled THEN [cb |-> cb, ret |-> FALSE]
    ELSE IF cb.tripped /\ t - cb.tripTime > ResetTimeout
    THEN [cb |-> [cb EXCEPT !.tripped = FALSE, !.failureCount = 0], ret |-> FALSE]
    ELSE [cb |-> cb, ret |-> cb.tripped]

\* CircuitBreaker.Reset
Reset_KeepCount(cb) == [cb EXCEPT !.tripped = FALSE]

Reset(cb) == [cb EXCEPT !.tripped = FALSE, !.failureCount = 0]

\* ------------------------------------------------------ error classification

\* The phrases shouldRetryError searches an error message for, in its order.
AlreadyProcessedPhrases ==
    {<<"Intent", "already", "settled">>, <<"Intent", "already", "fulfilled">>,
     <<"already", "fulfilled", "with", "these", "parameters">>}
NetworkPhrases ==
    {<<"connection", "refused">>, <<"timeout">>,
     <<"context", "deadline", "exceeded">>, <<"timed", "out">>,
     <<"no", "response">>, <<"EOF">>}
GasPhrases ==
    {<<"gas", "required", "exceeds", "allowance">>,
     <<"insufficient", "funds", "for", "gas">>, <<"gas", "price", "too", "low">>}
NoncePhrases ==
    {<<"nonce", "too", "low">>, <<"nonce", "too", "high">>,
     <<"replacement", "transaction", "underpriced">>}
FundsPhrases == {<<"insufficient", "balance">>, <<"insufficient", "funds">>}
ContractPhrases == {<<"execution", "reverted">>}

ContainsAny(msg, phrases) == \E p \in phrases : Contains(msg, p)

\* A classifier without the already_processed class.
shouldRetryError_NoAlready(msg) ==
    IF ContainsAny(msg, NetworkPhrases)
    THEN [retry |-> TRUE, type |-> "network_error"]
    ELSE [retry |-> TRUE, type |-> "unknown_error"]

\* shouldRetryError: (shouldRetry, errorType) of an error message.
shouldRetryError(msg) ==
    IF ContainsAny(msg, AlreadyProcessedPhrases)
    THEN [retry |-> FALSE, type |-> "already_processed"]
    ELSE IF ContainsAny(msg, NetworkPhrases)
    THEN [retry |-> TRUE, type |-> "network_error"]
    ELSE IF ContainsAny(msg, GasPhrases)
    THEN [retry |-> TRUE, type |-> "gas_error"]
    ELSE IF ContainsAny(msg, NoncePhrases)
    THEN [retry |-> TRUE, type |-> "nonce_error"]
    ELSE IF ContainsAny(msg, FundsPhrases)
    THEN [retry |-> FALSE, type |-> "insufficient_funds"]
    ELSE IF ContainsAny(msg, ContractPhrases)
    THEN [retry |-> FALSE, type |-> "contract_error"]
    ELSE [retry |-> TRUE, type |-> "unknown_error"]

\* Error messages fulfillIntent returns to the worker in the model: one
\* that counts as success, one that is retried, two that are permanent.
FulfillErrors ==
    {<<"failed", "to", "fulfill", "intent", "on", "137:", "Intent", "already", "fulfilled">>,
     <<"failed", "to", "fulfill", "intent", "on", "137:", "insufficient", "funds", "for", "gas">>,
     <<"failed", "to", "approve", "token", "transfer:", "insufficient", "funds">>,
     <<"failed", "to", "fulfill", "intent", "on", "137:", "execution", "reverted">>}

\* worker: the backoff of a retry after retryCount earlier retries.
Backoff_NoCeiling(retryCount) == (2 ^ (retryCount + 4)) * BackoffBase

Backoff(retryCount) == Min((2 ^ retryCount) * BackoffBase, MaxBackoff)

\* worker: "if shouldRetry && !circuitTripped { if retryCount < 3 {"
HandsToRetry_IgnoreTrip(shouldRetry, circuitTripped, retryCount) ==
    shouldRetry /\ retryCount < MaxRetryCount

HandsToRetry(shouldRetry, circuitTripped, retryCount) ==
    shouldRetry /\ ~circuitTripped /\ retryCount < MaxRetryCount

\* ------------------------------------------------------------------- state

VARIABLES
    now,              \* wall clock, seconds
    cancelled,        \* ctx.Done() is closed
    panicked,         \* a goroutine panicked: the process is gone
    startPc,          \* Start: "select", "sending", "waiting", "returned"
    startQueue,       \* Start: viableIntents not yet sent
    polls,            \* poll ticks so far that found a viable intent
    pendingJobs,      \* the pendingJobs channel's buffer
    pendingClosed,    \* close(s.pendingJobs) has run
    retryJobs,        \* the retryJobs channel's buffer
    wg,               \* s.wg, the in-flight counter
    wpc,              \* worker: "idle", "fulfilling", "sendRetry", "exited"
    wIntent,          \* worker: the intent it dequeued
    wJob,             \* worker: the retry job it is sending
    rhPc,             \* retryHandler: "select", "loop", "exited"
    retryQueue,       \* retryHandler: its retryQueue slice
    rhTick,           \* retryHandler: the locals of the tick being processed
    cbEnabled,        \* config CircuitBreaker.Enabled
    circuitBreakers,  \* s.circuitBreakers
    cbArmed,          \* history: RecordFailure returned true, no Reset since
    dispatched,       \* history: retry dispatches by base intent id
    lastOp,           \* history: what the last step did
    apiId,            \* the id of the intent the API lists during the run
    idOrig,           \* intent id: as the API gave it
    idQueue,          \* intent id: intent.ID as queued, retry tag included
    idPassed,         \* intent id: the bytes32 last passed to Fulfill
    currentNonce,     \* chainNonceData.currentNonce
    pendingTxs,       \* chainNonceData.pendingTxs, its keys
    lastSync,         \* chainNonceData.lastSync: "zero", "fresh", "stale"
    fpc,              \* fulfillIntent call: where it is
    fNonce,           \* fulfillIntent call: approvalNonce / fulfillNonce
    trackedMax,       \* history: the highest nonce given to TrackTransaction
    reusable,         \* history: nonces a MarkTransactionFailed released
    trackedInOrder,   \* history: every TrackTransaction so far was in order
    unmarked,         \* history: nonces a running call reserved, not marked yet
    leaked            \* history: nonces still unmarked when their call returned

poolVars ==
    <<now, cancelled, panicked, startPc, startQueue, polls, pendingJobs,
      pendingClosed, retryJobs, wg, wpc, wIntent, wJob, rhPc, retryQueue,
      rhTick, cbEnabled, circuitBreakers, cbArmed, dispatched, lastOp, apiId>>

idVars == <<idOrig, idQueue, idPassed>>

nonceVars ==
    <<currentNonce, pendingTxs, lastSync, fpc, fNonce, trackedMax, reusable,
      trackedInOrder, unmarked, leaked>>

\* The RetryManager: the buffer of rm.retryJobs, the job each worker is
\* blocked sending, the retry handler goroutine, and history variables.
VARIABLES rmRetryJobs, rmSending, rmHandler, rmRuns, rmCall

rmVars == <<rmRetryJobs, rmSending, rmHandler, rmRuns, rmCall>>

\* The NonceManager of nonce.go: the stored nonce of the signer, the nonce of each tracked transaction, each caller's position and nonce, and the last call.
VARIABLES nmStored, nmTxs, nmPc, nmGot, nmLast

nmVars == <<nmStored, nmTxs, nmPc, nmGot, nmLast>>

\* One CircuitBreaker under concurrent calls: its fields, the holder of cb.mu, each caller's position, method and result, and the history variables of the calls run one at a time.
VARIABLES bkCb, bkMu, bkPc, bkOp, bkRet, linCb, linRet

bkVars == <<bkCb, bkMu, bkPc, bkOp, bkRet, linCb, linRet>>

\* fulfillIntent: the call's position, the chain client's prices, the token contract's allowance, the allowance cache, the transactions sent
VARIABLES ffPc, ffCalls, ffAmount, ffMaxGasPrice, ffGasPrice, ffRefreshed, ffAllowance, ffCache, ffHasAllowance, ffTxs, ffRet

ffVars == <<ffPc, ffCalls, ffAmount, ffMaxGasPrice, ffGasPrice, ffRefreshed, ffAllowance, ffCache, ffHasAllowance, ffTxs, ffRet>>

\* the intent filter: the batch, the breakers, the wallet's balance with the
\* token's decimals, and each call's inputs and result
VARIABLES flIntents, flBreakers, flWallet, flLog

flVars == <<flIntents, flBreakers, flWallet, flLog>>

\* the fee-update routine: its fields, the goroutine's position and the channel its select holds, the client's published values, and an observer
VARIABLES feRunning, feStopChan, feClosed, fePc, feSel, feFetched, feClient, fePublished, feIter, feStopped, obPc, obSeen

feVars == <<feRunning, feStopChan, feClosed, fePc, feSel, feFetched, feClient, fePublished, feIter, feStopped, obPc, obSeen>>

\* GetNonce step by step: the holder of nm.mu, each caller's position, the stored nonce, the nonce each call returned
VARIABLES lkMu, lkPc, lkStored, lkGot

lkVars == <<lkMu, lkPc, lkStored, lkGot>>

\* the token price cache: c.cache, the most recent Set of each token since the cache was made or cleared, and the last Get
VARIABLES tpCache, tpLastSet, tpGot

tpVars == <<tpCache, tpLastSet, tpGot>>

\* FetchPendingIntents: the response and what was returned
VARIABLES srResp, srGot

srVars == <<srResp, srGot>>

\* The two bounded channels: Start, workers and retry handler as senders and receivers
VARIABLES dlStart, dlLeft, dlPending, dlRetryChan, dlW, dlRh, dlQueue, dlLoop, dlKept

dlVars == <<dlStart, dlLeft, dlPending, dlRetryChan, dlW, dlRh, dlQueue, dlLoop, dlKept>>

\* The breaker's failure window: the breaker, the clock and the failures counted
VARIABLES swCb, swNow, swFails, swLast

swVars == <<swCb, swNow, swFails, swLast>>

\* Intent ids the API may serve in the worker-pool model: 0xab.
ApiIds == {<<"0", "x", "a", "b">>}

\* models.Intent as the API returns it; orig is a history field that keeps
\* the id the API gave, ID is the field the code rewrites.
ApiIntent(id) == [ID |-> id, DestinationChain |-> 137, orig |-> id]

NoIntent == [ID |-> <<>>, DestinationChain |-> 0, orig |-> <<>>]
NoJob == [Intent |-> NoIntent, RetryCount |-> 0, NextAttempt |-> 0, ErrorType |-> ""]

NoOp ==
    [op |-> "none", w |-> 0, id |-> <<>>, retry |-> FALSE, tripped |-> FALSE,
     count |-> 0, fetchErr |-> FALSE, inMap |-> FALSE, msg |-> <<>>]

NoTick == [idx |-> 0, now |-> 0, err |-> FALSE, pendingMap |-> {},
           processed |-> 0, remaining |-> <<>>]

\* What s.fetchPendingIntents() can return: an error, or the list of the
\* pending intents, which holds the intent apiId or is empty.
FetchOutcomes ==
    {[err |-> TRUE, ids |-> <<>>],
     [err |-> FALSE, ids |-> <<>>],
     [err |-> FALSE, ids |-> <<apiId>>]}

PoolInit ==
    /\ now = 0
    /\ cancelled = FALSE
    /\ panicked = FALSE
    /\ startPc = "select"
    /\ startQueue = <<>>
    /\ polls = 0
    /\ pendingJobs = <<>>
    /\ pendingClosed = FALSE
    /\ retryJobs = <<>>
    /\ wg = 0
    /\ wpc = [w \in Workers |-> "idle"]
    /\ wIntent = [w \in Workers |-> NoIntent]
    /\ wJob = [w \in Workers |-> NoJob]
    /\ rhPc = "select"
    /\ retryQueue = <<>>
    /\ rhTick = NoTick
    /\ cbEnabled \in BOOLEAN
    /\ circuitBreakers = [c \in Chains |-> NewCircuitBreaker]
    /\ cbArmed = [c \in Chains |-> FALSE]
    /\ dispatched = [b \in ApiIds |-> 0]
    /\ lastOp = NoOp
    /\ apiId \in ApiIds

\* ---------------------------------------------------------------- the clock

Tick ==
    /\ ~panicked
    /\ \E i \in 1..(Len(Instants) - 1) : now = Instants[i] /\ now' = Instants[i + 1]
    /\ lastOp' = NoOp
    /\ UNCHANGED <<cancelled, panicked, startPc, startQueue, polls, pendingJobs,
                   pendingClosed, retryJobs, wg, wpc, wIntent, wJob, rhPc,
                   retryQueue, rhTick, cbEnabled, circuitBreakers, cbArmed,
                   dispatched, apiId,
                   idVars, nonceVars, rmVars, nmVars, bkVars, ffVars, flVars, feVars, lkVars, tpVars, srVars, dlVars, swVars>>

\* The context given to Start is cancelled.
Cancel ==
    /\ ~panicked
    /\ ~cancelled
    /\ cancelled' = TRUE
    /\ lastOp' = NoOp
    /\ UNCHANGED <<now, panicked, startPc, startQueue, polls, pendingJobs,
                   pendingClosed, retryJobs, wg, wpc, wIntent, wJob, rhPc,
                   retryQueue, rhTick, cbEnabled, circuitBreakers, cbArmed,
                   dispatched, apiId,
                   idVars, nonceVars, rmVars, nmVars, bkVars, ffVars, flVars, feVars, lkVars, tpVars, srVars, dlVars, swVars>>

\* health server: POST /circuit/reset calls cb.Reset().
HealthReset(c) ==
    /\ ~panicked
    /\ circuitBreakers' = [circuitBreakers EXCEPT ![c] = Reset(@)]
    /\ cbArmed' = [cbArmed EXCEPT ![c] = FALSE]
    /\ lastOp' = NoOp
    /\ UNCHANGED <<now, cancelled, panicked, startPc, startQueue, polls,
                   pendingJobs, pendingClosed, retryJobs, wg, wpc, wIntent, wJob,
                   rhPc, retryQueue, rhTick, cbEnabled, dispatched, apiId,
                   idVars, nonceVars, rmVars, nmVars, bkVars, ffVars, flVars, feVars, lkVars, tpVars, srVars, dlVars, swVars>>

\* ------------------------------------------------------------------- Start

\* IntentFilter.FilterViableIntents over the fetched ids, in order: an
\* intent is dropped when its destination's breaker IsOpen, or when one of
\* the later predicates (chains, age, balance, fee) rejects it; rejected is
\* the set of ids those later predicates reject.
RECURSIVE FilterViableIntents(_, _, _, _, _)
FilterViableIntents(ids, rejected, cbs, enabled, t) ==
    IF ids = <<>> THEN [viable |-> <<>>, cbs |-> cbs]
    ELSE
      LET it == ApiIntent(Head(ids))
          r == IsOpen(cbs[it.DestinationChain], enabled, t)
          cbs1 == [cbs EXCEPT ![it.DestinationChain] = r.cb]
          rest == FilterViableIntents(Tail(ids), rejected, cbs1, enabled, t)
      IN IF r.ret \/ Head(ids) \in rejected
         THEN rest
         ELSE [viable |-> <<it>> \o rest.viable, cbs |-> rest.cbs]

\* Start, case <-ticker.C: fetch, filter, and wg.Add(1) for the first
\* viable intent; each send to pendingJobs is a step of its own (StartSend).
StartTick ==
    /\ ~panicked
    /\ startPc = "select"
    /\ polls < MaxPolls
    /\ \E out \in FetchOutcomes, rejected \in SUBSET {apiId} :
         LET f == FilterViableIntents(out.ids, rejected, circuitBreakers,
                                      cbEnabled, now)
         IN IF out.err
            THEN UNCHANGED <<startPc, startQueue, wg, circuitBreakers, polls>>
            ELSE /\ circuitBreakers' = f.cbs
                 /\ startQueue' = f.viable
                 /\ startPc' = IF f.viable = <<>> THEN "select" ELSE "sending"
                 /\ wg' = IF f.viable = <<>> THEN wg ELSE wg + 1
                 /\ polls' = IF f.viable = <<>> THEN polls ELSE polls + 1
    /\ lastOp' = NoOp
    /\ UNCHANGED <<now, cancelled, panicked, pendingJobs, pendingClosed,
                   retryJobs, wpc, wIntent, wJob, rhPc, retryQueue, rhTick,
                   cbEnabled, cbArmed, dispatched, apiId,
                   idVars, nonceVars, rmVars, nmVars, bkVars, ffVars, flVars, feVars, lkVars, tpVars, srVars, dlVars, swVars>>

\* Start: s.pendingJobs <- intent, then wg.Add(1) for the next one.
StartSend ==
    /\ ~panicked
    /\ startPc = "sending"
    /\ Len(pendingJobs) < PendingCap
    /\ pendingJobs' = Append(pendingJobs, Head(startQueue))
    /\ startQueue' = Tail(startQueue)
    /\ startPc' = IF Tail(startQueue) = <<>> THEN "select" ELSE "sending"
    /\ wg' = IF Tail(startQueue) = <<>> THEN wg ELSE wg + 1
    /\ lastOp' = NoOp
    /\ UNCHANGED <<now, cancelled, panicked, polls, pendingClosed, retryJobs,
                   wpc, wIntent, wJob, rhPc, retryQueue, rhTick, cbEnabled,
                   circuitBreakers, cbArmed, dispatched, apiId,
                   idVars, nonceVars, rmVars, nmVars, bkVars, ffVars, flVars, feVars, lkVars, tpVars, srVars, dlVars, swVars>>

\* Start, case <-ctx.Done(): close(s.pendingJobs), then s.wg.Wait().
StartShutdown ==
    /\ ~panicked
    /\ startPc = "select"
    /\ cancelled
    /\ pendingClosed' = TRUE
    /\ startPc' = "waiting"
    /\ lastOp' = NoOp
    /\ UNCHANGED <<now, cancelled, panicked, startQueue, polls, pendingJobs,
                   retryJobs, wg, wpc, wIntent, wJob, rhPc, retryQueue, rhTick,
                   cbEnabled, circuitBreakers, cbArmed, dispatched, apiId,
                   idVars, nonceVars, rmVars, nmVars, bkVars, ffVars, flVars, feVars, lkVars, tpVars, srVars, dlVars, swVars>>

\* Start: s.wg.Wait() returns when the counter is zero, and Start returns.
StartReturn ==
    /\ ~panicked
    /\ startPc = "waiting"
    /\ wg = 0
    /\ startPc' = "returned"
    /\ lastOp' = NoOp
    /\ UNCHANGED <<now, cancelled, panicked, startQueue, polls, pendingJobs,
                   pendingClosed, retryJobs, wg, wpc, wIntent, wJob, rhPc,
                   retryQueue, rhTick, cbEnabled, circuitBreakers, cbArmed,
                   dispatched, apiId,
                   idVars, nonceVars, rmVars, nmVars, bkVars, ffVars, flVars, feVars, lkVars, tpVars, srVars, dlVars, swVars>>

\* ------------------------------------------------------------------ worker

\* worker, line 33: "ok && cb.IsEnabled() && cb.IsOpen()" for the intent's
\* destination chain; IsOpen is called only on an enabled breaker.
WorkerBreakerCheck_Never(intent, cbs, enabled, t) ==
    [cb |-> cbs[intent.DestinationChain], ret |-> FALSE]

WorkerBreakerCheck(intent, cbs, enabled, t) ==
    IF intent.DestinationChain \in DOMAIN cbs /\ enabled
    THEN IsOpen(cbs[intent.DestinationChain], enabled, t)
    ELSE [cb |-> cbs[intent.DestinationChain], ret |-> FALSE]

\* worker, case <-ctx.Done(): return.
WorkerExit(w) ==
    /\ ~panicked
    /\ wpc[w] = "idle"
    /\ cancelled
    /\ wpc' = [wpc EXCEPT ![w] = "exited"]
    /\ lastOp' = NoOp
    /\ UNCHANGED <<now, cancelled, panicked, startPc, startQueue, polls,
                   pendingJobs, pendingClosed, retryJobs, wg, wIntent, wJob,
                   rhPc, retryQueue, rhTick, cbEnabled, circuitBreakers,
                   cbArmed, dispatched, apiId,
                   idVars, nonceVars, rmVars, nmVars, bkVars, ffVars, flVars, feVars, lkVars, tpVars, srVars, dlVars, swVars>>

\* worker, receive from the closed and drained channel: return.
WorkerChannelClosed(w) ==
    /\ ~panicked
    /\ wpc[w] = "idle"
    /\ pendingClosed
    /\ pendingJobs = <<>>
    /\ wpc' = [wpc EXCEPT ![w] = "exited"]
    /\ lastOp' = NoOp
    /\ UNCHANGED <<now, cancelled, panicked, startPc, startQueue, polls,
                   pendingJobs, pendingClosed, retryJobs, wg, wIntent, wJob,
                   rhPc, retryQueue, rhTick, cbEnabled, circuitBreakers,
                   cbArmed, dispatched, apiId,
                   idVars, nonceVars, rmVars, nmVars, bkVars, ffVars, flVars, feVars, lkVars, tpVars, srVars, dlVars, swVars>>

\* worker, lines 25-39: an intent is received and its destination's breaker
\* is open: s.wg.Done(); continue.
WorkerSkip(w) ==
    /\ ~panicked
    /\ wpc[w] = "idle"
    /\ pendingJobs # <<>>
    /\ LET intent == Head(pendingJobs)
           r == WorkerBreakerCheck(intent, circuitBreakers, cbEnabled, now)
       IN /\ r.ret
          /\ circuitBreakers' = [circuitBreakers EXCEPT ![intent.DestinationChain] = r.cb]
          /\ lastOp' = [NoOp EXCEPT !.op = "skip", !.w = w, !.id = intent.ID]
    /\ pendingJobs' = Tail(pendingJobs)
    /\ wg' = wg - 1
    /\ UNCHANGED <<now, cancelled, panicked, startPc, startQueue, polls,
                   pendingClosed, retryJobs, wpc, wIntent, wJob, rhPc,
                   retryQueue, rhTick, cbEnabled, cbArmed, dispatched, apiId,
                   idVars, nonceVars, rmVars, nmVars, bkVars, ffVars, flVars, feVars, lkVars, tpVars, srVars, dlVars, swVars>>

\* worker, lines 25-47: an intent is received, the breaker is not open, and
\* s.fulfillIntent(intent) is called.
WorkerFulfill(w) ==
    /\ ~panicked
    /\ wpc[w] = "idle"
    /\ pendingJobs # <<>>
    /\ LET intent == Head(pendingJobs)
           r == WorkerBreakerCheck(intent, circuitBreakers, cbEnabled, now)
       IN /\ ~r.ret
          /\ circuitBreakers' = [circuitBreakers EXCEPT ![intent.DestinationChain] = r.cb]
          /\ wIntent' = [wIntent EXCEPT ![w] = intent]
          /\ lastOp' = [NoOp EXCEPT !.op = "fulfill", !.w = w, !.id = intent.ID]
    /\ pendingJobs' = Tail(pendingJobs)
    /\ wpc' = [wpc EXCEPT ![w] = "fulfilling"]
    /\ UNCHANGED <<now, cancelled, panicked, startPc, startQueue, polls,
                   pendingClosed, retryJobs, wg, wJob, rhPc, retryQueue, rhTick,
                   cbEnabled, cbArmed, dispatched, apiId,
                   idVars, nonceVars, rmVars, nmVars, bkVars, ffVars, flVars, feVars, lkVars, tpVars, srVars, dlVars, swVars>>

\* worker, lines 139-144: fulfillIntent returned nil.
WorkerSuccess(w) ==
    /\ ~panicked
    /\ wpc[w] = "fulfilling"
    /\ wpc' = [wpc EXCEPT ![w] = "idle"]
    /\ wIntent' = [wIntent EXCEPT ![w] = NoIntent]
    /\ wg' = wg - 1
    /\ lastOp' = [NoOp EXCEPT !.op = "success", !.w = w, !.id = wIntent[w].ID]
    /\ UNCHANGED <<now, cancelled, panicked, startPc, startQueue, polls,
                   pendingJobs, pendingClosed, retryJobs, wJob, rhPc, retryQueue,
                   rhTick, cbEnabled, circuitBreakers, cbArmed, dispatched, apiId,
                   idVars, nonceVars, rmVars, nmVars, bkVars, ffVars, flVars, feVars, lkVars, tpVars, srVars, dlVars, swVars>>

\* worker, lines 112-121: the retry job built for an intent.
NewRetryJob(intent, retryCount, errorType, t) ==
    [Intent |-> [intent EXCEPT !.ID = RetryID(intent.ID, retryCount + 1)],
     RetryCount |-> retryCount + 1,
     NextAttempt |-> t + Backoff(retryCount),
     ErrorType |-> errorType]

\* worker, lines 53-144: fulfillIntent returned the error msg.  The error is
\* classified; already_processed counts as success; otherwise the failure is
\* recorded in the breaker and the intent is handed to the retry handler or
\* given up.  The send to retryJobs blocks while that channel is full
\* (wg.Add(1) has run by then): the worker waits in "sendRetry".
WorkerFailure(w) ==
    /\ ~panicked
    /\ wpc[w] = "fulfilling"
    /\ \E msg \in FulfillErrors :
         LET intent == wIntent[w]
             c == intent.DestinationChain
             cls == shouldRetryError(msg)
             rf == IF c \in DOMAIN circuitBreakers
                   THEN RecordFailure(circuitBreakers[c], cbEnabled, now)
                   ELSE [cb |-> NewCircuitBreaker, ret |-> FALSE]
             retryCount == RetryCountOf(intent.ID)
             job == NewRetryJob(intent, retryCount, cls.type, now)
         IN IF cls.type = "already_processed"
            THEN /\ wg' = wg - 1
                 /\ wpc' = [wpc EXCEPT ![w] = "idle"]
                 /\ lastOp' = [NoOp EXCEPT !.op = "already", !.w = w,
                                           !.id = intent.ID, !.msg = msg]
                 /\ UNCHANGED <<retryJobs, wJob, circuitBreakers, cbArmed>>
            ELSE /\ circuitBreakers' = [circuitBreakers EXCEPT ![c] = rf.cb]
                 /\ cbArmed' = [cbArmed EXCEPT ![c] = @ \/ rf.ret]
                 /\ lastOp' = [NoOp EXCEPT !.op = "failed", !.w = w,
                                           !.id = intent.ID, !.retry = cls.retry,
                                           !.tripped = rf.ret, !.count = retryCount,
                                           !.msg = msg]
                 /\ IF HandsToRetry(cls.retry, rf.ret, retryCount)
                    THEN IF Len(retryJobs) < RetryChanCap
                         THEN /\ retryJobs' = Append(retryJobs, job)
                              /\ wpc' = [wpc EXCEPT ![w] = "idle"]
                              /\ UNCHANGED <<wg, wJob>>
                         ELSE /\ wg' = wg + 1
                              /\ wpc' = [wpc EXCEPT ![w] = "sendRetry"]
                              /\ wJob' = [wJob EXCEPT ![w] = job]
                              /\ UNCHANGED retryJobs
                    ELSE /\ wg' = wg - 1
                         /\ wpc' = [wpc EXCEPT ![w] = "idle"]
                         /\ UNCHANGED <<retryJobs, wJob>>
    /\ wIntent' = [wIntent EXCEPT ![w] = NoIntent]
    /\ UNCHANGED <<now, cancelled, panicked, startPc, startQueue, polls,
                   pendingJobs, pendingClosed, rhPc, retryQueue, rhTick,
                   cbEnabled, dispatched, apiId,
                   idVars, nonceVars, rmVars, nmVars, bkVars, ffVars, flVars, feVars, lkVars, tpVars, srVars, dlVars, swVars>>

\* worker, lines 128 and 144: the blocked send to retryJobs goes through,
\* then s.wg.Done().
WorkerSendRetry(w) ==
    /\ ~panicked
    /\ wpc[w] = "sendRetry"
    /\ Len(retryJobs) < RetryChanCap
    /\ retryJobs' = Append(retryJobs, wJob[w])
    /\ wJob' = [wJob EXCEPT ![w] = NoJob]
    /\ wpc' = [wpc EXCEPT ![w] = "idle"]
    /\ wg' = wg - 1
    /\ lastOp' = NoOp
    /\ UNCHANGED <<now, cancelled, panicked, startPc, startQueue, polls,
                   pendingJobs, pendingClosed, wIntent, rhPc, retryQueue, rhTick,
                   cbEnabled, circuitBreakers, cbArmed, dispatched, apiId,
                   idVars, nonceVars, rmVars, nmVars, bkVars, ffVars, flVars, feVars, lkVars, tpVars, srVars, dlVars, swVars>>

\* ------------------------------------------------------------ retryHandler

\* sort.Slice(retryQueue, NextAttempt ascending): any arrangement of the
\* jobs that is ordered by NextAttempt (the sort is not stable).
SortByNextAttempt(q) ==
    LET n == Len(q)
        perms == {f \in [1..n -> 1..n] : \A i, j \in 1..n : i # j => f[i] # f[j]}
    IN {[i \in 1..n |-> q[f[i]]] : f \in
           {g \in perms : \A i \in 1..(n - 1) :
                              q[g[i]].NextAttempt <= q[g[i + 1]].NextAttempt}}

\* retryHandler, case <-ctx.Done(): return.
RetryHandlerExit ==
    /\ ~panicked
    /\ rhPc = "select"
    /\ cancelled
    /\ rhPc' = "exited"
    /\ lastOp' = NoOp
    /\ UNCHANGED <<now, cancelled, panicked, startPc, startQueue, polls,
                   pendingJobs, pendingClosed, retryJobs, wg, wpc, wIntent, wJob,
                   retryQueue, rhTick, cbEnabled, circuitBreakers, cbArmed,
                   dispatched, apiId,
                   idVars, nonceVars, rmVars, nmVars, bkVars, ffVars, flVars, feVars, lkVars, tpVars, srVars, dlVars, swVars>>

\* retryHandler, line 214: "if len(retryQueue) >= maxQueueSize"
QueueAtCapacity_OffByOne(q, capacity) == Len(q) > capacity

QueueAtCapacity(q, capacity) == Len(q) >= capacity

\* retryHandler, case job := <-s.retryJobs: the job is dropped when the
\* queue is at capacity, appended and the queue sorted otherwise.
RetryHandlerReceiveAt(capacity) ==
    /\ ~panicked
    /\ rhPc = "select"
    /\ retryJobs # <<>>
    /\ retryJobs' = Tail(retryJobs)
    /\ IF QueueAtCapacity(retryQueue, capacity)
       THEN /\ wg' = wg - 1
            /\ UNCHANGED retryQueue
       ELSE /\ retryQueue' \in SortByNextAttempt(Append(retryQueue, Head(retryJobs)))
            /\ UNCHANGED wg
    /\ lastOp' = [NoOp EXCEPT !.op = IF QueueAtCapacity(retryQueue, capacity)
                                    THEN "dropped" ELSE "queued",
                              !.id = Head(retryJobs).Intent.ID,
                              !.count = Head(retryJobs).RetryCount]
    /\ UNCHANGED <<now, cancelled, panicked, startPc, startQueue, polls,
                   pendingJobs, pendingClosed, wpc, wIntent, wJob, rhPc, rhTick,
                   cbEnabled, circuitBreakers, cbArmed, dispatched, apiId,
                   idVars, nonceVars, rmVars, nmVars, bkVars, ffVars, flVars, feVars, lkVars, tpVars, srVars, dlVars, swVars>>

RetryHandlerReceive == RetryHandlerReceiveAt(maxQueueSize)

\* The capacity of the retry queue in the model of the queue alone (the
\* code's maxQueueSize is 1000).
QueueCap == 2

\* A worker's send of a retry job on s.retryJobs (worker.go 127-128), for the
\* model of the queue alone: the job of an intent retried k times before,
\* with the in-flight count it carries.
QueueSend ==
    /\ Len(retryJobs) < RetryChanCap
    /\ \E k \in 0..(MaxRetryCount - 1) :
         retryJobs' = Append(retryJobs,
                             NewRetryJob(ApiIntent(apiId), k, "network_error", now))
    /\ wg' = wg + 1
    /\ lastOp' = NoOp
    /\ UNCHANGED <<now, cancelled, panicked, startPc, startQueue, polls,
                   pendingJobs, pendingClosed, wpc, wIntent, wJob, rhPc,
                   retryQueue, rhTick, cbEnabled, circuitBreakers, cbArmed,
                   dispatched, apiId,
                   idVars, nonceVars, rmVars, nmVars, bkVars, ffVars, flVars, feVars, lkVars, tpVars, srVars, dlVars, swVars>>

\* retryHandler, case <-ticker.C, lines 227-256: now is read and the pending
\* intents are fetched; pendingIntentMap holds their base ids, and is empty
\* when the fetch failed.  The loop over the queue follows, one job a step.
RetryHandlerTick ==
    /\ ~panicked
    /\ rhPc = "select"
    /\ retryQueue # <<>>
    /\ \E out \in FetchOutcomes :
         rhTick' = [idx |-> 1, now |-> now, err |-> out.err,
                    pendingMap |-> {BaseID(out.ids[i]) : i \in 1..Len(out.ids)},
                    processed |-> 0, remaining |-> <<>>]
    /\ rhPc' = "loop"
    /\ lastOp' = NoOp
    /\ UNCHANGED <<now, cancelled, panicked, startPc, startQueue, polls,
                   pendingJobs, pendingClosed, retryJobs, wg, wpc, wIntent, wJob,
                   retryQueue, cbEnabled, circuitBreakers, cbArmed, dispatched, apiId,
                   idVars, nonceVars, rmVars, nmVars, bkVars, ffVars, flVars, feVars, lkVars, tpVars, srVars, dlVars, swVars>>

\* The job the loop is at.
RhJob == retryQueue[rhTick.idx]

\* retryHandler, line 263: job.NextAttempt.Before(now)
RhDue == RhJob.NextAttempt < rhTick.now

\* A retry handler that dispatches every due job, as the processRetryJobs
\* drafts do.
RhStillPending_Always(job, tick) == TRUE

\* retryHandler, line 272: "if err != nil || pendingIntentMap[baseIntentID]"
RhStillPending(job, tick) ==
    tick.err \/ BaseID(job.Intent.ID) \in tick.pendingMap

\* retryHandler, line 265: "if processed >= maxProcessPerTick"
TickLimitReached_Never(processed) == FALSE

TickLimitReached(processed) == processed >= maxProcessPerTick

\* A loop that forgets the jobs it kept: retryQueue is left empty.
RhAdvance_ForgetRemaining(remaining, processed) ==
    IF rhTick.idx = Len(retryQueue)
    THEN /\ retryQueue' = <<>>
         /\ rhTick' = NoTick
         /\ rhPc' = "select"
    ELSE /\ rhTick' = [rhTick EXCEPT !.idx = @ + 1, !.remaining = remaining,
                                     !.processed = processed]
         /\ UNCHANGED <<retryQueue, rhPc>>

\* The loop moves to the next job; after the last one retryQueue becomes
\* remainingJobs and the handler is back at its select.
RhAdvance(remaining, processed) ==
    IF rhTick.idx = Len(retryQueue)
    THEN /\ retryQueue' = remaining
         /\ rhTick' = NoTick
         /\ rhPc' = "select"
    ELSE /\ rhTick' = [rhTick EXCEPT !.idx = @ + 1, !.remaining = remaining,
                                     !.processed = processed]
         /\ UNCHANGED <<retryQueue, rhPc>>

\* retryHandler, lines 263-268 and 283-285: the job is not due, or the
\* per-tick limit is reached: it stays in the queue.
RetryHandlerKeep ==
    /\ ~panicked
    /\ rhPc = "loop"
    /\ ~RhDue \/ TickLimitReached(rhTick.processed)
    /\ RhAdvance(Append(rhTick.remaining, RhJob), rhTick.processed)
    /\ lastOp' = NoOp
    /\ UNCHANGED <<now, cancelled, panicked, startPc, startQueue, polls,
                   pendingJobs, pendingClosed, retryJobs, wg, wpc, wIntent, wJob,
                   cbEnabled, circuitBreakers, cbArmed, dispatched, apiId,
                   idVars, nonceVars, rmVars, nmVars, bkVars, ffVars, flVars, feVars, lkVars, tpVars, srVars, dlVars, swVars>>

\* retryHandler, lines 272-277: s.pendingJobs <- job.Intent.  The send
\* blocks while the channel is full.
RetryHandlerDispatch ==
    /\ ~panicked
    /\ rhPc = "loop"
    /\ RhDue
    /\ ~TickLimitReached(rhTick.processed)
    /\ RhStillPending(RhJob, rhTick)
    /\ ~pendingClosed
    /\ Len(pendingJobs) < PendingCap
    /\ pendingJobs' = Append(pendingJobs, RhJob.Intent)
    /\ dispatched' = [dispatched EXCEPT ![RhJob.Intent.orig] = @ + 1]
    /\ lastOp' = [NoOp EXCEPT !.op = "dispatch", !.id = RhJob.Intent.ID,
                              !.count = RhJob.RetryCount,
                              !.fetchErr = rhTick.err,
                              !.inMap = BaseID(RhJob.Intent.ID) \in rhTick.pendingMap]
    /\ RhAdvance(rhTick.remaining, rhTick.processed + 1)
    /\ UNCHANGED <<now, cancelled, panicked, startPc, startQueue, polls,
                   pendingClosed, retryJobs, wg, wpc, wIntent, wJob, cbEnabled,
                   circuitBreakers, cbArmed, apiId,
                   idVars, nonceVars, rmVars, nmVars, bkVars, ffVars, flVars, feVars, lkVars, tpVars, srVars, dlVars, swVars>>

\* retryHandler, line 275 after Start's close(s.pendingJobs): a send on a
\* closed channel panics, and the process dies.
RetryHandlerPanic ==
    /\ ~panicked
    /\ rhPc = "loop"
    /\ RhDue
    /\ ~TickLimitReached(rhTick.processed)
    /\ RhStillPending(RhJob, rhTick)
    /\ pendingClosed
    /\ panicked' = TRUE
    /\ lastOp' = [NoOp EXCEPT !.op = "panic"]
    /\ UNCHANGED <<now, cancelled, startPc, startQueue, polls, pendingJobs,
                   pendingClosed, retryJobs, wg, wpc, wIntent, wJob, rhPc,
                   retryQueue, rhTick, cbEnabled, circuitBreakers, cbArmed,
                   dispatched, apiId,
                   idVars, nonceVars, rmVars, nmVars, bkVars, ffVars, flVars, feVars, lkVars, tpVars, srVars, dlVars, swVars>>

\* retryHandler, lines 278-282: the intent is no longer pending: the job is
\* dropped and s.wg.Done() releases its count.
RetryHandlerDrop ==
    /\ ~panicked
    /\ rhPc = "loop"
    /\ RhDue
    /\ ~TickLimitReached(rhTick.processed)
    /\ ~RhStillPending(RhJob, rhTick)
    /\ wg' = wg - 1
    /\ lastOp' = [NoOp EXCEPT !.op = "drop", !.id = RhJob.Intent.ID,
                              !.fetchErr = rhTick.err]
    /\ RhAdvance(rhTick.remaining, rhTick.processed)
    /\ UNCHANGED <<now, cancelled, panicked, startPc, startQueue, polls,
                   pendingJobs, pendingClosed, retryJobs, wpc, wIntent, wJob,
                   cbEnabled, circuitBreakers, cbArmed, dispatched, apiId,
                   idVars, nonceVars, rmVars, nmVars, bkVars, ffVars, flVars, feVars, lkVars, tpVars, srVars, dlVars, swVars>>

\* ------------------------------------------------- the intent id on chain

\* The life of one intent id: the API gives idOrig; each failed attempt that
\* is retried rewrites the queue id; each attempt converts the queue id to
\* the bytes32 it passes to the contract's Fulfill.

\* Characters of the ids the API gives in this part of the model: hex digits
\* in both cases, and a character that is no hex digit.
IdChars == {"a", "F", "7", "g"}
\* Longest id body, without its 0x prefix.
MaxIdLen == 3

IdBodies == UNION {[1..n -> IdChars] : n \in 0..MaxIdLen}
IdInputs == IdBodies \cup {<<"0", "x">> \o b : b \in IdBodies}

\* "Nothing passed yet", as opposed to a hash.
NoHash == <<>>

IdInit ==
    /\ idOrig \in IdInputs
    /\ idQueue = idOrig
    /\ idPassed = NoHash

\* fulfillIntent, line 457: intentID := common.HexToHash(intent.ID), the
\* value later given to chainConfig.Contract.Fulfill.
IdFulfill ==
    /\ idPassed' = HexToHash(idQueue)
    /\ UNCHANGED <<idOrig, idQueue, poolVars, nonceVars, rmVars, nmVars, bkVars, ffVars, flVars, feVars, lkVars, tpVars, srVars, dlVars, swVars>>

\* worker, lines 90-121: the attempt failed with a retryable error and the
\* intent is re-queued under "<base>_retry_<n+1>".
IdRetry ==
    /\ idPassed # NoHash
    /\ HandsToRetry(TRUE, FALSE, RetryCountOf(idQueue))
    /\ idQueue' = RetryID(idQueue, RetryCountOf(idQueue) + 1)
    /\ idPassed' = NoHash
    /\ UNCHANGED <<idOrig, poolVars, nonceVars, rmVars, nmVars, bkVars, ffVars, flVars, feVars, lkVars, tpVars, srVars, dlVars, swVars>>

\* ------------------------------------------------------- the nonce manager

\* fulfillIntent calls running at once on one destination chain.
NumCallers == 2
\* GetNonce hands out nonces below MaxNonce in the model.
MaxNonce == 2

Callers == 1..NumCallers
Nonces == 0..MaxNonce

\* The local nonce of a call that holds none.
NoNonce == 0 - 1

NonceInit ==
    /\ currentNonce = 0
    /\ pendingTxs = {}
    /\ lastSync = "zero"
    /\ fpc = [c \in Callers |-> "idle"]
    /\ fNonce = [c \in Callers |-> NoNonce]
    /\ trackedMax = NoNonce
    /\ reusable = {}
    /\ trackedInOrder = TRUE
    /\ unmarked = [c \in Callers |-> {}]
    /\ leaked = {}

\* NonceManager.getLowestPendingNonce: 0 when nothing is pending.
getLowestPendingNonce(pending) ==
    IF pending = {} THEN 0 ELSE CHOOSE n \in pending : \A m \in pending : n <= m

\* NonceManager.GetNonce.  synced is what the sync branch did: "skip" when
\* lastSync is recent, "err" when PendingNonceAt failed, "chain" with the
\* chain's pending nonce otherwise.  The result: currentNonce afterwards,
\* and ok with the nonce handed out.
GetNonce(cur, synced) ==
    IF synced.kind = "err" THEN [ok |-> FALSE, nonce |-> 0, cur |-> cur]
    ELSE LET base == IF synced.kind = "chain" /\ synced.nonce > cur
                     THEN synced.nonce ELSE cur
         IN [ok |-> TRUE, nonce |-> base, cur |-> base + 1]

\* What the sync branch of GetNonce can do in the state.
SyncOutcomes ==
    IF lastSync = "fresh" THEN {[kind |-> "skip", nonce |-> 0]}
    ELSE {[kind |-> "err", nonce |-> 0]} \cup {[kind |-> "chain", nonce |-> n] : n \in Nonces}

\* NonceManager.MarkTransactionFailed: nothing when the nonce is not pending;
\* currentNonce goes back to the nonce when it is the lowest pending one.
MarkTransactionFailed(cur, pending, nonce) ==
    IF nonce \notin pending THEN [cur |-> cur, pending |-> pending, reused |-> FALSE]
    ELSE IF nonce = getLowestPendingNonce(pending)
    THEN [cur |-> nonce, pending |-> pending \ {nonce}, reused |-> TRUE]
    ELSE [cur |-> cur, pending |-> pending \ {nonce}, reused |-> FALSE]

\* NonceManager.MarkTransactionConfirmed
MarkTransactionConfirmed(pending, nonce) == pending \ {nonce}


\* Five minutes pass without a sync: the next GetNonce syncs again.
NonceStale ==
    /\ lastSync = "fresh"
    /\ lastSync' = "stale"
    /\ UNCHANGED <<currentNonce, pendingTxs, fpc, fNonce, trackedMax, reusable,
                   trackedInOrder, unmarked, leaked, poolVars, idVars, rmVars, nmVars, bkVars, ffVars, flVars, feVars, lkVars, tpVars, srVars, dlVars, swVars>>

\* fulfillIntent returns: the nonces in um were reserved by the call and
\* never marked.
Returns(c, um) ==
    /\ fpc' = [fpc EXCEPT ![c] = "idle"]
    /\ fNonce' = [fNonce EXCEPT ![c] = NoNonce]
    /\ unmarked' = [unmarked EXCEPT ![c] = {}]
    /\ leaked' = leaked \cup um

\* s.nonceManager.GetNonce(..) in fulfillIntent: on an error the call
\* returns; otherwise the nonce is the call's and the call goes on to next.
Reserves(c, next) ==
    \E synced \in SyncOutcomes :
      LET r == GetNonce(currentNonce, synced)
      IN IF ~r.ok
         THEN /\ Returns(c, unmarked[c])
              /\ UNCHANGED <<currentNonce, lastSync>>
         ELSE /\ r.nonce <= MaxNonce
              /\ currentNonce' = r.cur
              /\ lastSync' = IF synced.kind = "skip" THEN lastSync ELSE "fresh"
              /\ fNonce' = [fNonce EXCEPT ![c] = r.nonce]
              /\ unmarked' = [unmarked EXCEPT ![c] = @ \cup {r.nonce}]
              /\ fpc' = [fpc EXCEPT ![c] = next]
              /\ UNCHANGED leaked

\* The transaction is submitted: on an error fulfillIntent returns at once;
\* otherwise NonceManager.TrackTransaction records the nonce as pending.
Submits(c, next) ==
    \E ok \in BOOLEAN :
      IF ok
      THEN /\ pendingTxs' = pendingTxs \cup {fNonce[c]}
           /\ trackedInOrder' =
                (trackedInOrder /\ (fNonce[c] > trackedMax \/ fNonce[c] \in reusable))
           /\ trackedMax' = IF fNonce[c] > trackedMax THEN fNonce[c] ELSE trackedMax
           /\ reusable' = reusable \ {fNonce[c]}
           /\ fpc' = [fpc EXCEPT ![c] = next]
           /\ UNCHANGED <<fNonce, unmarked, leaked>>
      ELSE /\ Returns(c, unmarked[c])
           /\ UNCHANGED <<pendingTxs, trackedInOrder, trackedMax, reusable>>

\* bind.WaitMined returns: an error or a receipt of status 0 marks the nonce
\* failed and fulfillIntent returns; a good receipt marks it confirmed.
Mined(c, next) ==
    \E receipt \in {"error", "status0", "status1"} :
      IF receipt = "status1"
      THEN /\ pendingTxs' = MarkTransactionConfirmed(pendingTxs, fNonce[c])
           /\ IF next = "idle"
              THEN Returns(c, unmarked[c] \ {fNonce[c]})
              ELSE /\ fpc' = [fpc EXCEPT ![c] = next]
                   /\ unmarked' = [unmarked EXCEPT ![c] = @ \ {fNonce[c]}]
                   /\ UNCHANGED <<fNonce, leaked>>
           /\ UNCHANGED <<currentNonce, reusable>>
      ELSE LET r == MarkTransactionFailed(currentNonce, pendingTxs, fNonce[c])
           IN /\ currentNonce' = r.cur
              /\ pendingTxs' = r.pending
              /\ reusable' = IF r.reused THEN reusable \cup {fNonce[c]} ELSE reusable
              /\ Returns(c, unmarked[c] \ {fNonce[c]})

\* fulfillIntent, lines 547-550: the allowance is short, GetNonce for the
\* approval.
ApproveGetNonce(c) ==
    /\ fpc[c] = "idle"
    /\ Reserves(c, "approveSubmit")
    /\ UNCHANGED <<pendingTxs, trackedMax, reusable, trackedInOrder, poolVars,
                   idVars, rmVars, nmVars, bkVars, ffVars, flVars, feVars, lkVars, tpVars, srVars, dlVars, swVars>>

\* fulfillIntent, lines 559-566: erc20Contract.Transact and TrackTransaction.
ApproveSubmit(c) ==
    /\ fpc[c] = "approveSubmit"
    /\ Submits(c, "approveWait")
    /\ UNCHANGED <<currentNonce, lastSync, poolVars, idVars, rmVars, nmVars, bkVars, ffVars, flVars, feVars, lkVars, tpVars, srVars, dlVars, swVars>>

\* fulfillIntent, lines 572-587: the approval's receipt.
ApproveMined(c) ==
    /\ fpc[c] = "approveWait"
    /\ Mined(c, "approved")
    /\ UNCHANGED <<lastSync, trackedMax, trackedInOrder, poolVars, idVars, rmVars, nmVars, bkVars, ffVars, flVars, feVars, lkVars, tpVars, srVars, dlVars, swVars>>

\* fulfillIntent, lines 603-606: GetNonce for the fulfillment, after an
\* approval or when none was needed.
FulfillGetNonce(c) ==
    /\ fpc[c] \in {"idle", "approved"}
    /\ Reserves(c, "fulfillSubmit")
    /\ UNCHANGED <<pendingTxs, trackedMax, reusable, trackedInOrder, poolVars,
                   idVars, rmVars, nmVars, bkVars, ffVars, flVars, feVars, lkVars, tpVars, srVars, dlVars, swVars>>

\* fulfillIntent, lines 615-622: Contract.Fulfill and TrackTransaction.
FulfillSubmit(c) ==
    /\ fpc[c] = "fulfillSubmit"
    /\ Submits(c, "fulfillWait")
    /\ UNCHANGED <<currentNonce, lastSync, poolVars, idVars, rmVars, nmVars, bkVars, ffVars, flVars, feVars, lkVars, tpVars, srVars, dlVars, swVars>>

\* fulfillIntent, lines 628-646: the fulfillment's receipt.
FulfillMined(c) ==
    /\ fpc[c] = "fulfillWait"
    /\ Mined(c, "idle")
    /\ UNCHANGED <<lastSync, trackedMax, trackedInOrder, poolVars, idVars, rmVars, nmVars, bkVars, ffVars, flVars, feVars, lkVars, tpVars, srVars, dlVars, swVars>>

\* ------------------------------------------------------- the RetryManager

\* The buffer of rm.retryJobs in the model (the code makes it 100).
RmChanCap == 2

\* Error types handed to ScheduleRetry: none, and gas_error.
RmErrorTypes == {<<>>, <<"g", "a", "s", "_", "e", "r", "r", "o", "r">>}

ErrorSep == <<"_", "e", "r", "r", "o", "r", "_">>

\* strings.Join(elems, sep)
RECURSIVE Join(_, _)
Join(elems, sep) ==
    IF elems = <<>> THEN <<>>
    ELSE IF Len(elems) = 1 THEN elems[1]
    ELSE elems[1] \o sep \o Join(Tail(elems), sep)

\* RetryManager.CalculateBackoff
CalculateBackoff(retryCount) == Min((2 ^ retryCount) * BackoffBase, MaxBackoff)

\* RetryManager.ScheduleRetry up to its send: whether a job is scheduled
\* (FALSE when the retry count read from the id is 3 or more), the count it
\* read, and the job.  The count is read from what follows the first
\* "_retry_" of the id; the new id keeps all but the last "_retry_" part.
ScheduleRetry(intent, errorType, t) ==
    LET parts == Split(intent.ID, RetrySep)
        currentRetryCount == IF Len(parts) > 1 THEN Atoi(parts[2]) ELSE 0
        prefix == Join(SubSeq(parts, 1, Len(parts) - 1), RetrySep)
        newID == IF errorType # <<>>
                 THEN prefix \o RetrySep \o Itoa(currentRetryCount + 1)
                             \o ErrorSep \o errorType
                 ELSE prefix \o RetrySep \o Itoa(currentRetryCount + 1)
    IN [scheduled |-> currentRetryCount < MaxRetryCount,
        currentRetryCount |-> currentRetryCount,
        job |-> [Intent |-> [intent EXCEPT !.ID = newID],
                 RetryCount |-> currentRetryCount + 1,
                 NextAttempt |-> t + CalculateBackoff(currentRetryCount)]]

NoRmJob == [Intent |-> NoIntent, RetryCount |-> 0, NextAttempt |-> 0]

NoRmCall == [w |-> 0, id |-> <<>>, carried |-> 0, errorType |-> <<>>, at |-> 0,
             scheduled |-> FALSE, job |-> NoRmJob]

RmInit ==
    /\ rmRetryJobs = <<>>
    /\ rmSending = [w \in Workers |-> NoRmJob]
    /\ rmHandler = "running"
    /\ rmRuns = 0
    /\ rmCall = NoRmCall

\* The intents a worker can hand to ScheduleRetry: one as the API serves it,
\* and the intent of a job that was scheduled before, with the retry count
\* that job carries.
RmIntents ==
    {[intent |-> ApiIntent(id), carried |-> 0] : id \in ApiIds}
        \cup {[intent |-> rmRetryJobs[i].Intent,
               carried |-> rmRetryJobs[i].RetryCount] : i \in 1..Len(rmRetryJobs)}

\* A worker calls ScheduleRetry(intent, 0, errorType).  The call returns
\* without a job at the retry cap; otherwise the job is sent on
\* rm.retryJobs, and the caller stays in the send while the buffer is full.
\* rmCall is a history variable: the last call and what it built.
RmScheduleRetry(w) ==
    /\ ~cancelled
    /\ rmSending[w] = NoRmJob
    /\ \E in \in RmIntents, errorType \in RmErrorTypes :
         LET r == ScheduleRetry(in.intent, errorType, now)
         IN /\ rmCall' = [w |-> w, id |-> in.intent.ID, carried |-> in.carried,
                          errorType |-> errorType,
                          at |-> now, scheduled |-> r.scheduled,
                          job |-> IF r.scheduled THEN r.job ELSE NoRmJob]
            /\ IF ~r.scheduled
               THEN UNCHANGED <<rmRetryJobs, rmSending>>
               ELSE IF Len(rmRetryJobs) < RmChanCap
               THEN /\ rmRetryJobs' = Append(rmRetryJobs, r.job)
                    /\ UNCHANGED rmSending
               ELSE /\ rmSending' = [rmSending EXCEPT ![w] = r.job]
                    /\ UNCHANGED rmRetryJobs
    /\ UNCHANGED <<rmHandler, rmRuns, poolVars, idVars, nonceVars, nmVars, bkVars, ffVars, flVars, feVars, lkVars, tpVars, srVars, dlVars, swVars>>

\* Service.retryHandler, case <-time.After(1 * time.Second): it calls
\* processRetryJobs, which logs and returns; rm.retryJobs is not read.
\* rmRuns counts the calls modulo 2.
RmProcessRetryJobs ==
    /\ rmHandler = "running"
    /\ rmRuns' = (rmRuns + 1) % 2
    /\ UNCHANGED <<rmRetryJobs, rmSending, rmHandler, rmCall, poolVars, idVars,
                   nonceVars, nmVars, bkVars, ffVars, flVars, feVars, lkVars, tpVars, srVars, dlVars, swVars>>

\* Service.retryHandler, case <-ctx.Done()
RmHandlerExit ==
    /\ rmHandler = "running"
    /\ cancelled
    /\ rmHandler' = "stopped"
    /\ UNCHANGED <<rmRetryJobs, rmSending, rmRuns, rmCall, poolVars, idVars,
                   nonceVars, nmVars, bkVars, ffVars, flVars, feVars, lkVars, tpVars, srVars, dlVars, swVars>>

\* ------------------------------------ the NonceManager of pkg/fulfiller/nonce.go

\* The width of a nonce in the model (uint64 in the code): nonce arithmetic
\* wraps modulo 2^NonceBits.
NonceBits == 3

WrapNonce(n) == n % (2 ^ NonceBits)

\* Before any call: nm.nonces holds no nonce for the address, nm.txs is
\* empty.  Caller c submits the transaction with hash c.
NmInit ==
    /\ nmStored = NoNonce
    /\ nmTxs = [c \in Callers |-> NoNonce]
    /\ nmPc = [c \in Callers |-> "idle"]
    /\ nmGot = [c \in Callers |-> NoNonce]
    /\ nmLast = [op |-> "none", nonce |-> NoNonce, lowest |-> NoNonce,
                 before |-> NoNonce]

\* The nonces of the transactions nm.txs[chainID] holds.
NmPending == {nmTxs[c] : c \in {d \in Callers : nmTxs[d] # NoNonce}}

\* nonce.go GetNonce: the stored nonce is raised to the chain's pending
\* nonce when that is higher or nothing is stored, and returned.
NmGetNonce(c) ==
    /\ nmPc[c] = "idle"
    /\ \E chain \in Nonces :
         LET stored == IF nmStored = NoNonce \/ chain > nmStored
                       THEN chain ELSE nmStored
         IN /\ nmStored' = stored
            /\ nmGot' = [nmGot EXCEPT ![c] = stored]
    /\ nmPc' = [nmPc EXCEPT ![c] = "got"]
    /\ nmLast' = [op |-> "get", nonce |-> nmStored', lowest |-> NoNonce,
                  before |-> nmStored]
    /\ UNCHANGED <<nmTxs, poolVars, idVars, nonceVars, rmVars, bkVars, ffVars, flVars, feVars, lkVars, tpVars, srVars, dlVars, swVars>>

\* nonce.go TrackTransaction with the nonce GetNonce returned.
NmTrackTransaction(c) ==
    /\ nmPc[c] = "got"
    /\ nmTxs' = [nmTxs EXCEPT ![c] = nmGot[c]]
    /\ nmPc' = [nmPc EXCEPT ![c] = "tracked"]
    /\ nmLast' = [op |-> "track", nonce |-> nmGot[c], lowest |-> NoNonce,
                  before |-> nmStored]
    /\ UNCHANGED <<nmStored, nmGot, poolVars, idVars, nonceVars, rmVars, bkVars, ffVars, flVars, feVars, lkVars, tpVars, srVars, dlVars, swVars>>

\* nonce.go MarkTransactionConfirmed: the stored nonce moves past the
\* transaction's nonce when it equals it; the transaction is forgotten.
NmMarkTransactionConfirmed(c) ==
    /\ nmPc[c] = "tracked"
    /\ nmStored' = IF nmStored # NoNonce /\ nmStored = nmTxs[c]
                   THEN WrapNonce(nmTxs[c] + 1) ELSE nmStored
    /\ nmTxs' = [nmTxs EXCEPT ![c] = NoNonce]
    /\ nmPc' = [nmPc EXCEPT ![c] = "idle"]
    /\ nmGot' = [nmGot EXCEPT ![c] = NoNonce]
    /\ nmLast' = [op |-> "confirmed", nonce |-> nmTxs[c],
                  lowest |-> getLowestPendingNonce(NmPending), before |-> nmStored]
    /\ UNCHANGED <<poolVars, idVars, nonceVars, rmVars, bkVars, ffVars, flVars, feVars, lkVars, tpVars, srVars, dlVars, swVars>>

\* nonce.go MarkTransactionFailed: the stored nonce is set to the
\* transaction's nonce minus one when it equals that nonce; the transaction
\* is forgotten.  nmLast keeps the failed nonce, the lowest nonce pending at
\* the call and the stored nonce before it.
NmFailedNonce(stored, nonce) ==
    IF stored # NoNonce /\ stored = nonce
    THEN WrapNonce(nonce + (2 ^ NonceBits) - 1) ELSE stored

NmMarkTransactionFailed(c) ==
    /\ nmPc[c] = "tracked"
    /\ nmStored' = NmFailedNonce(nmStored, nmTxs[c])
    /\ nmTxs' = [nmTxs EXCEPT ![c] = NoNonce]
    /\ nmPc' = [nmPc EXCEPT ![c] = "idle"]
    /\ nmGot' = [nmGot EXCEPT ![c] = NoNonce]
    /\ nmLast' = [op |-> "failed", nonce |-> nmTxs[c],
                  lowest |-> getLowestPendingNonce(NmPending), before |-> nmStored]
    /\ UNCHANGED <<poolVars, idVars, nonceVars, rmVars, bkVars, ffVars, flVars, feVars, lkVars, tpVars, srVars, dlVars, swVars>>

\* -------------------------------------- concurrent calls on one CircuitBreaker

BkOps == {"RecordFailure", "IsOpen", "Reset"}

BkInit ==
    /\ bkCb = NewCircuitBreaker
    /\ bkMu = 0
    /\ bkPc = [c \in Callers |-> "idle"]
    /\ bkOp = [c \in Callers |-> "none"]
    /\ bkRet = [c \in Callers |-> FALSE]
    /\ linCb = NewCircuitBreaker
    /\ linRet = [c \in Callers |-> FALSE]

\* cb.mu is free.
MuFree_Always == TRUE

MuFree == bkMu = 0

\* The statements a call runs with cb.mu held, in the order of the code: the
\* breaker after the step at pc, the next step ("returned" after the
\* deferred Unlock) and the value returned.
BkBody(op, pc, cb, t) ==
    IF op = "RecordFailure" /\ pc = "s1"
    THEN IF cb.tripped /\ t - cb.tripTime > ResetTimeout
         THEN [cb |-> [cb EXCEPT !.tripped = FALSE, !.failureCount = 0],
               pc |-> "s2", ret |-> FALSE]
         ELSE IF cb.tripped
         THEN [cb |-> cb, pc |-> "returned", ret |-> TRUE]
         ELSE [cb |-> cb, pc |-> "s2", ret |-> FALSE]
    ELSE IF op = "RecordFailure" /\ pc = "s2"
    THEN LET c2 == IF t - cb.lastFailure > FailureWindow
                   THEN [cb EXCEPT !.failureCount = 0] ELSE cb
         IN [cb |-> [c2 EXCEPT !.failureCount = @ + 1, !.lastFailure = t],
             pc |-> "s3", ret |-> FALSE]
    ELSE IF op = "RecordFailure"
    THEN IF cb.failureCount >= FailThreshold
         THEN [cb |-> [cb EXCEPT !.tripped = TRUE, !.tripTime = t],
               pc |-> "returned", ret |-> TRUE]
         ELSE [cb |-> cb, pc |-> "returned", ret |-> FALSE]
    ELSE IF op = "IsOpen"
    THEN IF cb.tripped /\ t - cb.tripTime > ResetTimeout
         THEN [cb |-> [cb EXCEPT !.tripped = FALSE, !.failureCount = 0],
               pc |-> "returned", ret |-> FALSE]
         ELSE [cb |-> cb, pc |-> "returned", ret |-> cb.tripped]
    ELSE IF pc = "s1"
    THEN [cb |-> [cb EXCEPT !.tripped = FALSE], pc |-> "s2", ret |-> FALSE]
    ELSE [cb |-> [cb EXCEPT !.failureCount = 0], pc |-> "returned", ret |-> FALSE]

\* What the call op does to a breaker when it runs alone at time t.
BkSequential(op, cb, enabled, t) ==
    IF op = "RecordFailure" THEN RecordFailure(cb, enabled, t)
    ELSE IF op = "IsOpen" THEN IsOpen(cb, enabled, t)
    ELSE [cb |-> Reset(cb), ret |-> FALSE]

\* A goroutine calls a method of the breaker.  RecordFailure and IsOpen read
\* cb.enabled, which nothing writes after NewCircuitBreaker, before they
\* lock, and return false on a disabled breaker.  linCb and linRet are
\* history variables: the breaker and the results of the calls run one at a
\* time, each at one instant between its call and its return.
BkCall(c) ==
    /\ bkPc[c] = "idle"
    /\ \E op \in BkOps :
         /\ bkOp' = [bkOp EXCEPT ![c] = op]
         /\ IF op # "Reset" /\ ~cbEnabled
            THEN /\ bkPc' = [bkPc EXCEPT ![c] = "returned"]
                 /\ bkRet' = [bkRet EXCEPT ![c] = FALSE]
                 /\ linCb' = BkSequential(op, linCb, cbEnabled, now).cb
                 /\ linRet' = [linRet EXCEPT ![c] =
                                  BkSequential(op, linCb, cbEnabled, now).ret]
            ELSE /\ bkPc' = [bkPc EXCEPT ![c] = "lock"]
                 /\ UNCHANGED <<bkRet, linCb, linRet>>
    /\ UNCHANGED <<bkCb, bkMu, poolVars, idVars, nonceVars, rmVars, nmVars, ffVars, flVars, feVars, lkVars, tpVars, srVars, dlVars, swVars>>

\* cb.mu.Lock()
BkLock(c) ==
    /\ bkPc[c] = "lock"
    /\ MuFree
    /\ bkMu' = c
    /\ bkPc' = [bkPc EXCEPT ![c] = "s1"]
    /\ linCb' = BkSequential(bkOp[c], linCb, cbEnabled, now).cb
    /\ linRet' = [linRet EXCEPT ![c] =
                     BkSequential(bkOp[c], linCb, cbEnabled, now).ret]
    /\ UNCHANGED <<bkCb, bkOp, bkRet, poolVars, idVars, nonceVars, rmVars, nmVars, ffVars, flVars, feVars, lkVars, tpVars, srVars, dlVars, swVars>>

\* The next statements of the call; the deferred cb.mu.Unlock() runs with
\* the return.
BkStep(c) ==
    /\ bkPc[c] \in {"s1", "s2", "s3"}
    /\ LET r == BkBody(bkOp[c], bkPc[c], bkCb, now)
       IN /\ bkCb' = r.cb
          /\ bkPc' = [bkPc EXCEPT ![c] = r.pc]
          /\ IF r.pc = "returned"
             THEN bkMu' = 0 /\ bkRet' = [bkRet EXCEPT ![c] = r.ret]
             ELSE UNCHANGED <<bkMu, bkRet>>
    /\ UNCHANGED <<bkOp, linCb, linRet, poolVars, idVars, nonceVars, rmVars, nmVars, ffVars, flVars, feVars, lkVars, tpVars, srVars, dlVars, swVars>>

\* The caller has the result and may call again.
BkReturn(c) ==
    /\ bkPc[c] = "returned"
    /\ bkPc' = [bkPc EXCEPT ![c] = "idle"]
    /\ bkOp' = [bkOp EXCEPT ![c] = "none"]
    /\ bkRet' = [bkRet EXCEPT ![c] = FALSE]
    /\ linRet' = [linRet EXCEPT ![c] = FALSE]
    /\ UNCHANGED <<bkCb, bkMu, linCb, poolVars, idVars, nonceVars, rmVars, nmVars, ffVars, flVars, feVars, lkVars, tpVars, srVars, dlVars, swVars>>

\* The clock reading changes between critical sections, not inside one.
BkTick == bkMu = 0 /\ Tick

\* ------------------------------------------- one long retry queue and its wakes

\* The length of the retry queue the handler starts with in the model of
\* its wakes: more jobs than one wake may process.
TickQueueLen == 12

\* A retry queue as the handler keeps it, sorted by NextAttempt: n jobs of a
\* first retry and TickQueueLen - n jobs of a third retry, all scheduled at
\* time 0.
TickQueue(n) ==
    [i \in 1..TickQueueLen |->
        NewRetryJob(ApiIntent(CHOOSE id \in ApiIds : TRUE),
                    IF i <= n THEN 0 ELSE 2, "network_error", 0)]

\* The pool with such a queue in the handler's hands, each job holding its
\* in-flight count.
TickInit ==
    /\ now = 0
    /\ cancelled = FALSE
    /\ panicked = FALSE
    /\ startPc = "select"
    /\ startQueue = <<>>
    /\ polls = 0
    /\ pendingJobs = <<>>
    /\ pendingClosed = FALSE
    /\ retryJobs = <<>>
    /\ wg = TickQueueLen
    /\ wpc = [w \in Workers |-> "idle"]
    /\ wIntent = [w \in Workers |-> NoIntent]
    /\ wJob = [w \in Workers |-> NoJob]
    /\ rhPc = "select"
    /\ \E n \in 0..TickQueueLen : retryQueue = TickQueue(n)
    /\ rhTick = NoTick
    /\ cbEnabled = TRUE
    /\ circuitBreakers = [c \in Chains |-> NewCircuitBreaker]
    /\ cbArmed = [c \in Chains |-> FALSE]
    /\ dispatched = [b \in ApiIds |-> 0]
    /\ lastOp = NoOp
    /\ apiId \in ApiIds

\* ------------------------------------------- fulfillIntent: gas and allowance
\* One goroutine calling fulfillIntent for one intent, call after call.  The
\* nonce manager's own state is the subject of the nonce part above; here a
\* reservation either succeeds or returns an error.

MaxFulfillCalls == 2
MaxAmount == 2
MaxSuggested == 3
GasMultiplierNum == 3
GasMultiplierDen == 2
CeilingPrice == 2
AllowanceTTL == 40

\* fulfill.go 556: 2^256 - 1, here the amount above every intent's amount.
maxUint256 == MaxAmount + 1

NoPrice == 0 - 1
NoReturn == [returned |-> FALSE, err |-> <<>>]
NoCacheEntry == [exists |-> FALSE, Allowance |-> 0, Expiration |-> 0]

\* chainclient.go UpdateGasPrice: the suggested price times the multiplier,
\* truncated to an integer.
UpdateGasPrice(suggested) == (suggested * GasMultiplierNum) \div GasMultiplierDen

\* main_test.go checkAndCacheAllowance: the cached entry answers the question.
CacheSufficient(entry, amount, t) ==
    entry.exists /\ t < entry.Expiration /\ entry.Allowance >= amount

updateAllowanceCache_Skip(entry, newAllowance, t) == entry

\* main_test.go updateAllowanceCache
updateAllowanceCache(entry, newAllowance, t) ==
    [exists |-> TRUE, Allowance |-> newAllowance, Expiration |-> t + AllowanceTTL]

FfInit ==
    /\ ffPc = "idle"
    /\ ffCalls = 0
    /\ ffAmount \in 1..MaxAmount
    /\ ffMaxGasPrice = CeilingPrice
    /\ ffGasPrice = 1
    /\ ffRefreshed = NoPrice
    /\ ffAllowance \in 0..MaxAmount
    /\ ffCache = NoCacheEntry
    /\ ffHasAllowance = FALSE
    /\ ffTxs = <<>>
    /\ ffRet = NoReturn

FfIdle ==
    /\ ffPc = "idle"
    /\ ffCalls = 0
    /\ ffAmount = 1
    /\ ffMaxGasPrice = CeilingPrice
    /\ ffGasPrice = 1
    /\ ffRefreshed = NoPrice
    /\ ffAllowance = 0
    /\ ffCache = NoCacheEntry
    /\ ffHasAllowance = FALSE
    /\ ffTxs = <<>>
    /\ ffRet = NoReturn

FfReturn(err) ==
    /\ ffPc' = "idle"
    /\ ffRet' = [returned |-> TRUE, err |-> err]

\* fulfill.go 431-506: the chain is configured; the gas price is refreshed,
\* which may fail; the amount parses and the token is known.  MaxGasPrice is
\* not read.
FfBegin ==
    /\ ffPc = "idle"
    /\ ffCalls < MaxFulfillCalls
    /\ ffCalls' = ffCalls + 1
    /\ \/ /\ ffRefreshed' = NoPrice
          /\ UNCHANGED ffGasPrice
       \/ \E suggested \in 1..MaxSuggested :
             /\ ffGasPrice' = UpdateGasPrice(suggested)
             /\ ffRefreshed' = UpdateGasPrice(suggested)
    /\ ffPc' = "allowance"
    /\ ffRet' = NoReturn
    /\ UNCHANGED <<ffAmount, ffMaxGasPrice, ffAllowance, ffCache,
                   ffHasAllowance, ffTxs,
                   poolVars, idVars, nonceVars, rmVars, nmVars, bkVars, flVars, feVars, lkVars, tpVars, srVars, dlVars, swVars>>

\* fulfill.go 508-524 with checkAndCacheAllowance: a fresh sufficient cache
\* entry answers; otherwise the contract is asked, the answer cached, and an
\* error of the call counts as no allowance.
FfCheckAllowance ==
    /\ ffPc = "allowance"
    /\ \/ /\ CacheSufficient(ffCache, ffAmount, now)
          /\ ffHasAllowance' = TRUE
          /\ UNCHANGED ffCache
       \/ /\ ~CacheSufficient(ffCache, ffAmount, now)
          /\ \/ /\ ffHasAllowance' = FALSE
                /\ UNCHANGED ffCache
             \/ /\ ffCache' = updateAllowanceCache(ffCache, ffAllowance, now)
                /\ ffHasAllowance' = (ffAllowance >= ffAmount)
    /\ ffPc' = IF ffHasAllowance' THEN "fulfill" ELSE "approve"
    /\ UNCHANGED <<ffCalls, ffAmount, ffMaxGasPrice, ffGasPrice, ffRefreshed,
                   ffAllowance, ffTxs, ffRet,
                   poolVars, idVars, nonceVars, rmVars, nmVars, bkVars, flVars, feVars, lkVars, tpVars, srVars, dlVars, swVars>>

FfTx(method) ==
    [method |-> method, gasPrice |-> ffGasPrice, call |-> ffCalls, at |-> now]

\* fulfill.go 546-569: reserve a nonce and send approve(spender, maxUint256).
FfApproveSubmit ==
    /\ ffPc = "approve"
    /\ \/ /\ FfReturn(<<"failed", "to", "get", "nonce", "for", "approval:",
                        "connection", "refused">>)
          /\ UNCHANGED ffTxs
       \/ /\ FfReturn(<<"failed", "to", "approve", "token", "transfer:",
                        "insufficient", "funds">>)
          /\ UNCHANGED ffTxs
       \/ /\ ffTxs' = Append(ffTxs, FfTx("approve"))
          /\ ffPc' = "approveMined"
          /\ UNCHANGED ffRet
    /\ UNCHANGED <<ffCalls, ffAmount, ffMaxGasPrice, ffGasPrice, ffRefreshed,
                   ffAllowance, ffCache, ffHasAllowance,
                   poolVars, idVars, nonceVars, rmVars, nmVars, bkVars, flVars, feVars, lkVars, tpVars, srVars, dlVars, swVars>>

\* fulfill.go 571-600: wait for the approval; a mined approval with status 1
\* has set the contract's allowance, and the cache is updated to it.
FfApproveMined ==
    /\ ffPc = "approveMined"
    /\ \/ /\ FfReturn(<<"failed", "to", "wait", "for", "approve",
                        "transaction:", "context", "deadline", "exceeded">>)
          /\ UNCHANGED <<ffAllowance, ffCache>>
       \/ /\ FfReturn(<<"approve", "transaction", "failed">>)
          /\ UNCHANGED <<ffAllowance, ffCache>>
       \/ /\ ffAllowance' = maxUint256
          /\ ffCache' = updateAllowanceCache(ffCache, maxUint256, now)
          /\ ffPc' = "fulfill"
          /\ UNCHANGED ffRet
    /\ UNCHANGED <<ffCalls, ffAmount, ffMaxGasPrice, ffGasPrice, ffRefreshed,
                   ffHasAllowance, ffTxs,
                   poolVars, idVars, nonceVars, rmVars, nmVars, bkVars, flVars, feVars, lkVars, tpVars, srVars, dlVars, swVars>>

\* fulfill.go 602-625: reserve a nonce and send fulfill.
FfFulfillSubmit ==
    /\ ffPc = "fulfill"
    /\ \/ /\ FfReturn(<<"failed", "to", "get", "nonce", "for", "fulfillment:",
                        "connection", "refused">>)
          /\ UNCHANGED ffTxs
       \/ /\ \E err \in FulfillErrors \ {<<"failed", "to", "approve", "token",
                                           "transfer:", "insufficient", "funds">>} :
                FfReturn(err)
          /\ UNCHANGED ffTxs
       \/ /\ ffTxs' = Append(ffTxs, FfTx("fulfill"))
          /\ ffPc' = "fulfillMined"
          /\ UNCHANGED ffRet
    /\ UNCHANGED <<ffCalls, ffAmount, ffMaxGasPrice, ffGasPrice, ffRefreshed,
                   ffAllowance, ffCache, ffHasAllowance,
                   poolVars, idVars, nonceVars, rmVars, nmVars, bkVars, flVars, feVars, lkVars, tpVars, srVars, dlVars, swVars>>

\* fulfill.go 627-646: wait for the fulfillment and return.
FfFulfillMined ==
    /\ ffPc = "fulfillMined"
    /\ \/ FfReturn(<<"failed", "to", "wait", "for", "transaction", "on",
                     "137:", "context", "deadline", "exceeded">>)
       \/ FfReturn(<<"transaction", "failed", "on", "137">>)
       \/ FfReturn(<<>>)
    /\ UNCHANGED <<ffCalls, ffAmount, ffMaxGasPrice, ffGasPrice, ffRefreshed,
                   ffAllowance, ffCache, ffHasAllowance, ffTxs,
                   poolVars, idVars, nonceVars, rmVars, nmVars, bkVars, flVars, feVars, lkVars, tpVars, srVars, dlVars, swVars>>

\* ------------------------------------------------------- the intent filter
\* IntentFilter.FilterViableIntents with each of its predicates, called on
\* the same batch poll after poll while the clock, the breakers and the
\* chain client's answers change.

MaxBatch == 2
MaxFilterRuns == 2
BscFactor == 10
MaxIntentAge == 120
BscChain == 56

\* config.Chains with each chain's MinFee; NoMinFee is a nil MinFee.
NoMinFee == 0 - 1
FlChains == {137, BscChain}
FlMinFee(chain) == IF chain = 137 THEN 5 ELSE NoMinFee

\* Intents the API can return: one that passes and one for each reason
\* the filter has to refuse.
FlIntent(src, dst, created, amount, fee) ==
    [SourceChain |-> src, DestinationChain |-> dst, CreatedAt |-> created,
     Amount |-> amount, IntentFee |-> fee]

FlIntents ==
    {FlIntent(1, 137, 0 - 30, <<"3">>, <<"2", "0">>),
     FlIntent(137, 137, 0 - 30, <<"3">>, <<"2", "0">>),
     FlIntent(1, 137, 0 - 110, <<"3">>, <<"2", "0">>),
     FlIntent(1, 137, 0 - 30, <<"2", "0">>, <<"2", "0">>),
     FlIntent(1, 137, 0 - 30, <<"3">>, <<"x">>),
     FlIntent(1, 137, 0 - 30, <<"3">>, <<"0">>),
     FlIntent(1, 999, 0 - 30, <<"3">>, <<"2", "0">>),
     FlIntent(1, 137, 0 - 30, <<"3">>, <<"3">>),
     FlIntent(BscChain, 137, 0 - 30, <<"3", "0">>, <<"6", "0">>),
     FlIntent(1, BscChain, 0 - 30, <<"3">>, <<"2">>)}

\* big.Int.SetString(s, 10): the value and whether s is a decimal integer.
SetString(s) ==
    LET body == IF s # <<>> /\ s[1] \in {"+", "-"} THEN Tail(s) ELSE s
        ok == body # <<>> /\ \A i \in 1..Len(body) : IsDigit(body[i])
    IN [ok |-> ok,
        val |-> IF ~ok THEN 0
                ELSE IF s[1] = "-" THEN 0 - DigitsValue(body)
                ELSE DigitsValue(body)]

\* "convert for BSC unit difference"
BscConvert(intent, v) ==
    IF intent.SourceChain = BscChain THEN v \div BscFactor
    ELSE IF intent.DestinationChain = BscChain THEN v * BscFactor
    ELSE v

RpcOutcomes == {"ok", "balanceErr", "decimalsErr"}

\* getTokenBalance: an error, or the raw balance with the divisor
\* 10^decimals it is to be divided by.
getTokenBalance(chainID, rpc, wallet) ==
    IF chainID \notin FlChains \/ rpc # "ok"
    THEN [err |-> TRUE, raw |-> 0, divisor |-> 1]
    ELSE [err |-> FALSE, raw |-> wallet.raw, divisor |-> 10 ^ wallet.decimals]

hasSufficientBalance_AcceptOnError(intent, rpc, wallet) ==
    LET b == getTokenBalance(intent.DestinationChain, rpc, wallet)
        a == SetString(intent.Amount)
    IN b.err \/ (a.ok /\ b.raw >= BscConvert(intent, a.val) * b.divisor)

\* hasSufficientBalance: balance.Cmp(amountFloat) >= 0 with the balance
\* being raw / divisor.
hasSufficientBalance(intent, rpc, wallet) ==
    LET b == getTokenBalance(intent.DestinationChain, rpc, wallet)
        a == SetString(intent.Amount)
    IN ~b.err /\ a.ok /\ b.raw >= BscConvert(intent, a.val) * b.divisor

\* The body of the loop of FilterViableIntents for one intent, the breaker
\* already asked: the reason the intent is skipped, or "viable".
FlVerdict(intent, open, rpc, wallet, t) ==
    LET fee == SetString(intent.IntentFee)
    IN IF open THEN "breaker"
       ELSE IF intent.SourceChain = intent.DestinationChain THEN "same_chain"
       ELSE IF t - intent.CreatedAt > MaxIntentAge THEN "too_old"
       ELSE IF ~hasSufficientBalance(intent, rpc, wallet) THEN "balance"
       ELSE IF ~fee.ok THEN "fee_format"
       ELSE IF fee.val <= 0 THEN "fee_not_positive"
       ELSE IF intent.DestinationChain \notin FlChains THEN "no_chain"
       ELSE IF /\ FlMinFee(intent.DestinationChain) # NoMinFee
               /\ BscConvert(intent, fee.val) < FlMinFee(intent.DestinationChain)
       THEN "min_fee"
       ELSE "viable"

\* FilterViableIntents from position i on: the positions appended to
\* viableIntents and the breakers afterwards.
RECURSIVE FilterFrom(_, _, _, _, _, _)
FilterFrom(intents, i, cbs, rpcs, wallet, t) ==
    IF i > Len(intents) THEN [viable |-> <<>>, cbs |-> cbs]
    ELSE
      LET it == intents[i]
          has == it.DestinationChain \in DOMAIN cbs
          r == IF has THEN IsOpen(cbs[it.DestinationChain], TRUE, t)
               ELSE [cb |-> NewCircuitBreaker, ret |-> FALSE]
          cbs1 == IF has THEN [cbs EXCEPT ![it.DestinationChain] = r.cb] ELSE cbs
          rest == FilterFrom(intents, i + 1, cbs1, rpcs, wallet, t)
      IN IF FlVerdict(it, r.ret, rpcs[i], wallet, t) = "viable"
         THEN [viable |-> <<i>> \o rest.viable, cbs |-> rest.cbs]
         ELSE rest

Wallets == [raw : {5, 50}, decimals : {0, 1}]

\* A breaker that tripped at the start of the clock.
TrippedBreaker ==
    [failureCount |-> FailThreshold, lastFailure |-> 0,
     tripped |-> TRUE, tripTime |-> 0]

FlInit ==
    /\ flIntents \in UNION {[1..n -> FlIntents] : n \in 0..MaxBatch}
    /\ \E cb \in {NewCircuitBreaker, TrippedBreaker} :
          flBreakers = [c \in FlChains |->
                           IF c = 137 THEN cb ELSE NewCircuitBreaker]
    /\ flWallet \in Wallets
    /\ flLog = <<>>

FlIdle ==
    /\ flIntents = <<>>
    /\ flBreakers = [c \in FlChains |-> NewCircuitBreaker]
    /\ flWallet = [raw |-> 5, decimals |-> 0]
    /\ flLog = <<>>

\* One poll: FilterViableIntents(intents, circuitBreakers) with the wallet
\* and the chain client's answers of this poll.
FlRun ==
    /\ Len(flLog) < MaxFilterRuns
    /\ \E rpcs \in [1..Len(flIntents) -> RpcOutcomes] :
          LET f == FilterFrom(flIntents, 1, flBreakers, rpcs, flWallet, now)
          IN /\ flBreakers' = f.cbs
             /\ flLog' = Append(flLog, [wallet |-> flWallet, rpcs |-> rpcs,
                                        cbs |-> flBreakers, t |-> now,
                                        viable |-> f.viable])
    /\ UNCHANGED <<flIntents, flWallet,
                   poolVars, idVars, nonceVars, rmVars, nmVars, bkVars, ffVars, feVars, lkVars, tpVars, srVars, dlVars, swVars>>

\* ----------------------------------------------------- the fee-update routine
\* One chain client with its FeeUpdateRoutine started by New, a caller of
\* Stop, and an observer reading the three published values through the
\* client's getters.

MaxIterations == 2
MaxFeeSuggested == 2
MaxTokenPrice == 2
GasUnits == 100000

\* computeWithdrawFee: gasPrice * 100000 * tokenPriceUSD, in 10^-18 USD.
computeWithdrawFee(gasPrice, tokenPriceUSD) == gasPrice * GasUnits * tokenPriceUSD

\* The client's fields before the first update: a nil gas price, 0 and 0.
NoTriple == [gas |-> 0, price |-> 0, fee |-> 0]

FeInit ==
    /\ feRunning = TRUE
    /\ feStopChan = "ch"
    /\ feClosed = FALSE
    /\ fePc = "update"
    /\ feSel = "nil"
    /\ feFetched = NoTriple
    /\ feClient = NoTriple
    /\ fePublished = {}
    /\ feIter = 0
    /\ feStopped = FALSE
    /\ obPc = "gas"
    /\ obSeen = NoTriple

FeIdle ==
    /\ feRunning = FALSE
    /\ feStopChan = "nil"
    /\ feClosed = FALSE
    /\ fePc = "exited"
    /\ feSel = "nil"
    /\ feFetched = NoTriple
    /\ feClient = NoTriple
    /\ fePublished = {}
    /\ feIter = 0
    /\ feStopped = FALSE
    /\ obPc = "gas"
    /\ obSeen = NoTriple

\* updatePrices 101-114: fetch the gas price and the token price, compute
\* the fee; an error of either fetch ends run.
FeFetch ==
    /\ fePc = "update"
    /\ \/ /\ fePc' = "exited"
          /\ UNCHANGED feFetched
       \/ \E suggested \in 1..MaxFeeSuggested, tokenPrice \in 1..MaxTokenPrice :
             LET gasPrice == UpdateGasPrice(suggested)
             IN /\ feFetched' = [gas |-> gasPrice, price |-> tokenPrice,
                                 fee |-> computeWithdrawFee(gasPrice, tokenPrice)]
                /\ fePc' = "publish"
    /\ UNCHANGED <<feRunning, feStopChan, feClosed, feSel, feClient,
                   fePublished, feIter, feStopped, obPc, obSeen,
                   poolVars, idVars, nonceVars, rmVars, nmVars, bkVars, ffVars, flVars, lkVars, tpVars, srVars, dlVars, swVars>>

\* updatePrices 117-121: the three stores under client.mu.
FePublish ==
    /\ fePc = "publish"
    /\ feClient' = feFetched
    /\ fePublished' = fePublished \cup {feFetched}
    /\ feIter' = Min(feIter + 1, MaxIterations)
    /\ fePc' = "select"
    /\ UNCHANGED <<feRunning, feStopChan, feClosed, feSel, feFetched,
                   feStopped, obPc, obSeen,
                   poolVars, idVars, nonceVars, rmVars, nmVars, bkVars, ffVars, flVars, lkVars, tpVars, srVars, dlVars, swVars>>

\* run 87-93: entering select evaluates r.stopChan, without r.mu; once Stop
\* has written the field the unsynchronised read yields the nil it stored
\* or the channel that was there before.
FeSelect ==
    /\ fePc = "select"
    /\ feSel' \in {feStopChan} \cup (IF feStopped THEN {"ch"} ELSE {})
    /\ fePc' = "wait"
    /\ UNCHANGED <<feRunning, feStopChan, feClosed, feFetched, feClient,
                   fePublished, feIter, feStopped, obPc, obSeen,
                   poolVars, idVars, nonceVars, rmVars, nmVars, bkVars, ffVars, flVars, lkVars, tpVars, srVars, dlVars, swVars>>

\* run 88: case <-ticker.C
FeTickerCase ==
    /\ fePc = "wait"
    /\ fePc' = "update"
    /\ UNCHANGED <<feRunning, feStopChan, feClosed, feSel, feFetched, feClient,
                   fePublished, feIter, feStopped, obPc, obSeen,
                   poolVars, idVars, nonceVars, rmVars, nmVars, bkVars, ffVars, flVars, lkVars, tpVars, srVars, dlVars, swVars>>

\* run 93: case <-r.stopChan, ready when the channel select holds is closed;
\* a nil channel is never ready.
FeStopCase ==
    /\ fePc = "wait"
    /\ feSel = "ch"
    /\ feClosed
    /\ fePc' = "exited"
    /\ UNCHANGED <<feRunning, feStopChan, feClosed, feSel, feFetched, feClient,
                   fePublished, feIter, feStopped, obPc, obSeen,
                   poolVars, idVars, nonceVars, rmVars, nmVars, bkVars, ffVars, flVars, lkVars, tpVars, srVars, dlVars, swVars>>

\* Client.StopFeeUpdateRoutine and FeeUpdateRoutine.Stop
FeStop ==
    /\ ~feStopped
    /\ feStopped' = TRUE
    /\ IF feRunning
       THEN /\ feClosed' = TRUE
            /\ feStopChan' = "nil"
            /\ feRunning' = FALSE
       ELSE UNCHANGED <<feClosed, feStopChan, feRunning>>
    /\ UNCHANGED <<fePc, feSel, feFetched, feClient, fePublished, feIter,
                   obPc, obSeen,
                   poolVars, idVars, nonceVars, rmVars, nmVars, bkVars, ffVars, flVars, lkVars, tpVars, srVars, dlVars, swVars>>

\* Client.GetCurrentGasPrice
ObGetCurrentGasPrice ==
    /\ obPc \in {"gas", "seen"}
    /\ obSeen' = [NoTriple EXCEPT !.gas = feClient.gas]
    /\ obPc' = "price"
    /\ UNCHANGED <<feRunning, feStopChan, feClosed, fePc, feSel, feFetched,
                   feClient, fePublished, feIter, feStopped,
                   poolVars, idVars, nonceVars, rmVars, nmVars, bkVars, ffVars, flVars, lkVars, tpVars, srVars, dlVars, swVars>>

\* Client.GetStoredTokenPriceUSD
ObGetStoredTokenPriceUSD ==
    /\ obPc = "price"
    /\ obSeen' = [obSeen EXCEPT !.price = feClient.price]
    /\ obPc' = "fee"
    /\ UNCHANGED <<feRunning, feStopChan, feClosed, fePc, feSel, feFetched,
                   feClient, fePublished, feIter, feStopped,
                   poolVars, idVars, nonceVars, rmVars, nmVars, bkVars, ffVars, flVars, lkVars, tpVars, srVars, dlVars, swVars>>

\* Client.GetWithdrawFeeUSD
ObGetWithdrawFeeUSD ==
    /\ obPc = "fee"
    /\ obSeen' = [obSeen EXCEPT !.fee = feClient.fee]
    /\ obPc' = "seen"
    /\ UNCHANGED <<feRunning, feStopChan, feClosed, fePc, feSel, feFetched,
                   feClient, fePublished, feIter, feStopped,
                   poolVars, idVars, nonceVars, rmVars, nmVars, bkVars, ffVars, flVars, lkVars, tpVars, srVars, dlVars, swVars>>

\* ------------------------------------------- GetNonce, its lock and its RPC
\* nonce.go GetNonce step by step: callers take nm.mu, ask the chain for
\* the pending nonce, and release nm.mu on return.

LkInit ==
    /\ lkMu = 0
    /\ lkPc = [c \in Callers |-> "idle"]
    /\ lkStored = NoNonce
    /\ lkGot = [c \in Callers |-> NoNonce]

\* nonce.go 37-46: nm.mu.Lock(), the maps are made on first use.
LkLock(c) ==
    /\ lkPc[c] \in {"idle", "returned"}
    /\ lkMu = 0
    /\ lkMu' = c
    /\ lkPc' = [lkPc EXCEPT ![c] = "locked"]
    /\ UNCHANGED <<lkStored, lkGot,
                   poolVars, idVars, nonceVars, rmVars, nmVars, bkVars, ffVars, flVars, feVars, tpVars, srVars, dlVars, swVars>>

\* nonce.go 49: client.PendingNonceAt is sent; the caller waits for the
\* answer.
LkPendingNonceAt(c) ==
    /\ lkPc[c] = "locked"
    /\ lkPc' = [lkPc EXCEPT ![c] = "rpc"]
    /\ UNCHANGED <<lkMu, lkStored, lkGot,
                   poolVars, idVars, nonceVars, rmVars, nmVars, bkVars, ffVars, flVars, feVars, tpVars, srVars, dlVars, swVars>>

\* nonce.go 50-59 and the deferred nm.mu.Unlock(): the answer is an error,
\* or a nonce that raises the stored one.
LkAnswer(c) ==
    /\ lkPc[c] = "rpc"
    /\ \/ /\ lkGot' = [lkGot EXCEPT ![c] = NoNonce]
          /\ UNCHANGED lkStored
       \/ \E chain \in Nonces :
             LET stored == IF lkStored = NoNonce \/ chain > lkStored
                           THEN chain ELSE lkStored
             IN /\ lkStored' = stored
                /\ lkGot' = [lkGot EXCEPT ![c] = stored]
    /\ lkMu' = 0
    /\ lkPc' = [lkPc EXCEPT ![c] = "returned"]
    /\ UNCHANGED <<poolVars, idVars, nonceVars, rmVars, nmVars, bkVars, ffVars, flVars, feVars, tpVars, srVars, dlVars, swVars>>

\* ------------------------------------------------------ the token price cache
\* One TokenPriceCache with callers of Set, Get and Clear as time passes.

CacheTTL == 30
MaxCachedPrice == 2

TokenIDs == {"ethereum", "matic-network"}

\* A tokenID without an entry in c.cache.
NoCached == [exists |-> FALSE, price |-> 0, timestamp |-> 0]
NoGet == [tokenID |-> "", price |-> 0, found |-> FALSE, at |-> 0]

\* NewTokenPriceCache
TpInit ==
    /\ tpCache = [id \in TokenIDs |-> NoCached]
    /\ tpLastSet = [id \in TokenIDs |-> NoCached]
    /\ tpGot = NoGet

CacheExpired_AtTTL(elapsed, ttl) == elapsed >= ttl

\* Get 119: time.Since(cached.timestamp) > c.cacheTTL
CacheExpired(elapsed, ttl) == elapsed > ttl

\* TokenPriceCache.Get: the price and whether it was found.
TpLookup(cache, tokenID, t) ==
    IF ~cache[tokenID].exists THEN [price |-> 0, found |-> FALSE]
    ELSE IF CacheExpired(t - cache[tokenID].timestamp, CacheTTL)
    THEN [price |-> 0, found |-> FALSE]
    ELSE [price |-> cache[tokenID].price, found |-> TRUE]

\* TokenPriceCache.Get
TpGet(tokenID) ==
    /\ tpGot' = [tokenID |-> tokenID, at |-> now,
                 price |-> TpLookup(tpCache, tokenID, now).price,
                 found |-> TpLookup(tpCache, tokenID, now).found]
    /\ UNCHANGED <<tpCache, tpLastSet,
                   poolVars, idVars, nonceVars, rmVars, nmVars, bkVars, ffVars, flVars, feVars, lkVars, srVars, dlVars, swVars>>

\* TokenPriceCache.Set; tpLastSet remembers the call.
TpSet(tokenID, price) ==
    /\ tpCache' = [tpCache EXCEPT ![tokenID] =
                      [exists |-> TRUE, price |-> price, timestamp |-> now]]
    /\ tpLastSet' = [tpLastSet EXCEPT ![tokenID] =
                        [exists |-> TRUE, price |-> price, timestamp |-> now]]
    /\ tpGot' = NoGet
    /\ UNCHANGED <<poolVars, idVars, nonceVars, rmVars, nmVars, bkVars, ffVars, flVars, feVars, lkVars, srVars, dlVars, swVars>>

\* TokenPriceCache.Clear: every entry is removed; nothing is stored any more.
TpClear ==
    /\ tpCache' = [id \in TokenIDs |-> NoCached]
    /\ tpLastSet' = [id \in TokenIDs |-> NoCached]
    /\ tpGot' = NoGet
    /\ UNCHANGED <<poolVars, idVars, nonceVars, rmVars, nmVars, bkVars, ffVars, flVars, feVars, lkVars, srVars, dlVars, swVars>>

\* Time passes; the result of an earlier Get is no longer of this moment.
TpTick ==
    /\ \E i \in 1..(Len(Instants) - 1) : now = Instants[i] /\ now' = Instants[i + 1]
    /\ tpGot' = NoGet
    /\ UNCHANGED <<cancelled, panicked, startPc, startQueue, polls, pendingJobs,
                   pendingClosed, retryJobs, wg, wpc, wIntent, wJob, rhPc,
                   retryQueue, rhTick, cbEnabled, circuitBreakers, cbArmed,
                   dispatched, lastOp, apiId, tpCache, tpLastSet,
                   idVars, nonceVars, rmVars, nmVars, bkVars, ffVars, flVars, feVars, lkVars, srVars, dlVars, swVars>>

\* ------------------------------------------------- FetchPendingIntents
\* pkg/srunclient/srunclient.go.  A response body is described by what
\* encoding/json makes of it: a top-level array, an object, or a value that
\* is neither.  An object's intents, data and results fields and one field of
\* another name ("items") hold arrays of intents; <<>> stands for a field
\* that is absent or an empty array, which the code cannot tell apart
\* (len(...) > 0).  An object without pagination fields decodes with
\* TotalCount = 0, the zero value of int.

MaxBodyLen == 1
MaxTotalCount == 2

BodyIDs == {"a", "b"}

BodyLists == UNION {[1..n -> BodyIDs] : n \in 0..MaxBodyLen}

ArrayBodies ==
    {[kind |-> "array", array |-> l, intents |-> <<>>, data |-> <<>>,
      results |-> <<>>, items |-> <<>>, paginated |-> FALSE,
      total_count |-> 0] : l \in BodyLists}

ObjectBodies ==
    {[kind |-> "object", array |-> <<>>, intents |-> i, data |-> d,
      results |-> r, items |-> o, paginated |-> p, total_count |-> c] :
        i \in BodyLists, d \in BodyLists, r \in BodyLists, o \in BodyLists,
        p \in BOOLEAN, c \in 0..MaxTotalCount}

GarbageBody ==
    [kind |-> "garbage", array |-> <<>>, intents |-> <<>>, data |-> <<>>,
     results |-> <<>>, items |-> <<>>, paginated |-> FALSE, total_count |-> 0]

\* The pagination fields exist only in a paginated object.
Bodies ==
    ArrayBodies \cup {GarbageBody}
        \cup {b \in ObjectBodies : ~b.paginated => b.total_count = 0}

StatusCodes == {200, 500}

Responses == [status : StatusCodes, body : Bodies]

NoResponse == [status |-> 0, body |-> GarbageBody]

NoFetched == [intents |-> <<>>, err |-> FALSE, returned |-> FALSE]

\* The server's answer to the GET is there, the call has not returned.
SrInit ==
    /\ srResp \in Responses
    /\ srGot = NoFetched

SrIdle ==
    /\ srResp = NoResponse
    /\ srGot = NoFetched

SrReturn(intents, err) == [intents |-> intents, err |-> err, returned |-> TRUE]

\* srunclient.go 76-81, as written: total_count = 0 answers "no intents".
TotalCountIsZero(body) == body.total_count = 0

\* srunclient.go 61-119: what FetchPendingIntents returns for a response.
DecodeIntents(resp) ==
    LET body == resp.body IN
    IF resp.status # 200 THEN SrReturn(<<>>, TRUE)
    ELSE IF body.kind = "array" THEN SrReturn(body.array, FALSE)
    ELSE IF body.kind = "garbage" THEN SrReturn(<<>>, TRUE)
    ELSE IF TotalCountIsZero(body) THEN SrReturn(<<>>, FALSE)
    ELSE IF Len(body.intents) > 0 THEN SrReturn(body.intents, FALSE)
    ELSE IF Len(body.data) > 0 THEN SrReturn(body.data, FALSE)
    ELSE IF Len(body.results) > 0 THEN SrReturn(body.results, FALSE)
    ELSE SrReturn(body.items, FALSE)

\* One call of FetchPendingIntents, the server having answered srResp.
FetchPendingIntents ==
    /\ srResp # NoResponse
    /\ ~srGot.returned
    /\ srGot' = DecodeIntents(srResp)
    /\ UNCHANGED srResp
    /\ UNCHANGED <<poolVars, idVars, nonceVars, rmVars, nmVars, bkVars, ffVars, flVars, feVars, lkVars, tpVars, dlVars, swVars>>

\* --------------------------------------------- the two bounded channels
\* Start's sending loop, the workers and the retry handler as producers and
\* consumers of pendingJobs and retryJobs, before cancellation.  An intent
\* is known here by its retry count alone; whether fulfillIntent fails,
\* whether a job is due and whether the API still lists it are choices.
\* Fewer than maxProcessPerTick jobs exist, so the per-tick limit of the
\* retry handler never binds.

MaxDlIntents == 7
MaxDlBatch == 2
\* Of the MaxRetryCount retries the worker allows an intent, the first
\* MaxDlRetries are followed here; a further failure ends the intent.
MaxDlRetries == 1

DlIdleWorker == [pc |-> "idle", count |-> 0]

DlInit ==
    /\ dlStart = "select"
    /\ dlLeft = 0
    /\ dlPending = <<>>
    /\ dlRetryChan = <<>>
    /\ dlW = [w \in Workers |-> DlIdleWorker]
    /\ dlRh = "select"
    /\ dlQueue = <<>>
    /\ dlLoop = <<>>
    /\ dlKept = <<>>

DlIdle == DlInit

\* The intents in the channels, in the workers and with the retry handler.
DlInFlight ==
    dlLeft + Len(dlPending) + Len(dlRetryChan)
    + Cardinality({w \in Workers : dlW[w].pc # "idle"})
    + (IF dlRh = "select" THEN Len(dlQueue) ELSE Len(dlLoop) + Len(dlKept))

\* service.go 159-173: a tick of Start found n viable intents.  No more
\* than MaxDlIntents intents are in flight at a time.
DlStartTick(n) ==
    /\ dlStart = "select"
    /\ DlInFlight + n <= MaxDlIntents
    /\ dlStart' = "sending"
    /\ dlLeft' = n
    /\ UNCHANGED <<dlPending, dlRetryChan, dlW, dlRh, dlQueue, dlLoop, dlKept,
                   poolVars, idVars, nonceVars, rmVars, nmVars, bkVars, ffVars, flVars, feVars, lkVars, tpVars, srVars, swVars>>

\* service.go 174-177: s.pendingJobs <- intent, which blocks while the
\* channel is full.
DlStartSend ==
    /\ dlStart = "sending"
    /\ Len(dlPending) < PendingCap
    /\ dlPending' = Append(dlPending, 0)
    /\ dlLeft' = dlLeft - 1
    /\ dlStart' = IF dlLeft = 1 THEN "select" ELSE "sending"
    /\ UNCHANGED <<dlRetryChan, dlW, dlRh, dlQueue, dlLoop, dlKept,
                   poolVars, idVars, nonceVars, rmVars, nmVars, bkVars, ffVars, flVars, feVars, lkVars, tpVars, srVars, swVars>>

\* worker.go 25-47: a worker receives an intent; with the breaker open it
\* skips it, otherwise it is in fulfillIntent.
DlWorkerReceive(w) ==
    /\ dlW[w].pc = "idle"
    /\ dlPending # <<>>
    /\ dlPending' = Tail(dlPending)
    /\ \/ dlW' = [dlW EXCEPT ![w] = [pc |-> "fulfilling", count |-> Head(dlPending)]]
       \/ UNCHANGED dlW
    /\ UNCHANGED <<dlStart, dlLeft, dlRetryChan, dlRh, dlQueue, dlLoop, dlKept,
                   poolVars, idVars, nonceVars, rmVars, nmVars, bkVars, ffVars, flVars, feVars, lkVars, tpVars, srVars, swVars>>

\* worker.go 53-144: fulfillIntent returned.  The worker is done with the
\* intent, or (retryable error, breaker not tripped, retry count below 3) it
\* sends a retry job: s.retryJobs <- retryJob blocks while that channel is
\* full.
DlWorkerDone(w) ==
    /\ dlW[w].pc = "fulfilling"
    /\ \/ dlW' = [dlW EXCEPT ![w] = DlIdleWorker]
       \/ /\ dlW[w].count < MaxRetryCount
          /\ dlW[w].count < MaxDlRetries
          /\ dlW' = [dlW EXCEPT ![w] = [pc |-> "sendRetry", count |-> dlW[w].count + 1]]
    /\ UNCHANGED <<dlStart, dlLeft, dlPending, dlRetryChan, dlRh, dlQueue, dlLoop, dlKept,
                   poolVars, idVars, nonceVars, rmVars, nmVars, bkVars, ffVars, flVars, feVars, lkVars, tpVars, srVars, swVars>>

\* worker.go 128: the send to retryJobs goes through.
DlWorkerSendRetry(w) ==
    /\ dlW[w].pc = "sendRetry"
    /\ Len(dlRetryChan) < RetryChanCap
    /\ dlRetryChan' = Append(dlRetryChan, dlW[w].count)
    /\ dlW' = [dlW EXCEPT ![w] = DlIdleWorker]
    /\ UNCHANGED <<dlStart, dlLeft, dlPending, dlRh, dlQueue, dlLoop, dlKept,
                   poolVars, idVars, nonceVars, rmVars, nmVars, bkVars, ffVars, flVars, feVars, lkVars, tpVars, srVars, swVars>>

\* worker.go 219-224: the job is appended and the queue sorted by
\* NextAttempt.  The jobs carry no time here; the queue is kept in the one
\* arrangement that has the jobs of fewer retries first (the loop decides
\* on each job by itself).
DlSorted(q, job) ==
    LET k == Cardinality({i \in DOMAIN q : q[i] <= job})
    IN SubSeq(q, 1, k) \o <<job>> \o SubSeq(q, k + 1, Len(q))

\* worker.go 212-225: the retry handler, at its select, receives a job.
DlRhReceive ==
    /\ dlRh = "select"
    /\ dlRetryChan # <<>>
    /\ dlRetryChan' = Tail(dlRetryChan)
    /\ dlQueue' = DlSorted(dlQueue, Head(dlRetryChan))
    /\ UNCHANGED <<dlStart, dlLeft, dlPending, dlW, dlRh, dlLoop, dlKept,
                   poolVars, idVars, nonceVars, rmVars, nmVars, bkVars, ffVars, flVars, feVars, lkVars, tpVars, srVars, swVars>>

\* worker.go 226-258: the retry handler's ticker fires and the loop over
\* retryQueue begins.
DlRhTick ==
    /\ dlRh = "select"
    /\ dlQueue # <<>>
    /\ dlRh' = "loop"
    /\ dlLoop' = dlQueue
    /\ dlKept' = <<>>
    /\ UNCHANGED <<dlStart, dlLeft, dlPending, dlRetryChan, dlW, dlQueue,
                   poolVars, idVars, nonceVars, rmVars, nmVars, bkVars, ffVars, flVars, feVars, lkVars, tpVars, srVars, swVars>>

\* worker.go 288: retryQueue = remainingJobs, after the last job.
DlRhAdvance(kept) ==
    IF Tail(dlLoop) = <<>>
    THEN /\ dlQueue' = kept
         /\ dlLoop' = <<>>
         /\ dlKept' = <<>>
         /\ dlRh' = "select"
    ELSE /\ dlLoop' = Tail(dlLoop)
         /\ dlKept' = kept
         /\ dlRh' = "loop"
         /\ UNCHANGED dlQueue

\* worker.go 259-286: the loop looks at one job: not due, it is kept; due
\* and no longer pending, it is dropped; due and pending, it is to be sent.
DlRhLook ==
    /\ dlRh = "loop"
    /\ \/ DlRhAdvance(Append(dlKept, Head(dlLoop)))
       \/ DlRhAdvance(dlKept)
       \/ /\ dlRh' = "sending"
          /\ UNCHANGED <<dlQueue, dlLoop, dlKept>>
    /\ UNCHANGED <<dlStart, dlLeft, dlPending, dlRetryChan, dlW,
                   poolVars, idVars, nonceVars, rmVars, nmVars, bkVars, ffVars, flVars, feVars, lkVars, tpVars, srVars, swVars>>

\* worker.go 275: s.pendingJobs <- job.Intent, which blocks while the
\* channel is full.
DlRhSend ==
    /\ dlRh = "sending"
    /\ Len(dlPending) < PendingCap
    /\ dlPending' = Append(dlPending, Head(dlLoop))
    /\ DlRhAdvance(dlKept)
    /\ UNCHANGED <<dlStart, dlLeft, dlRetryChan, dlW,
                   poolVars, idVars, nonceVars, rmVars, nmVars, bkVars, ffVars, flVars, feVars, lkVars, tpVars, srVars, swVars>>

\* ------------------------------------------- the breaker's failure window
\* One CircuitBreaker with the configuration it was constructed with
\* (breaker.go 13-15, 23-30): a threshold above two, so that a failure can
\* be older than the window while later ones still count.  swFails is the
\* history of the times at which RecordFailure counted a failure; swLast
\* tells of the last call whether it counted a failure and whether it found
\* the breaker open past its reset timeout and closed it.

SwThreshold == 3
SwWindow == 20
SwReset == 30
\* The clock advances by SwStep up to SwMaxTime.
SwStep == 15
SwMaxTime == 90
\* Failures counted in a run.
MaxSwFailures == 4

NoSwCall == [op |-> "none", ret |-> FALSE, counted |-> FALSE, autoClosed |-> FALSE]

SwInit ==
    /\ swCb = NewCircuitBreaker
    /\ swNow = 0
    /\ swFails = <<>>
    /\ swLast = NoSwCall

SwIdle == SwInit

\* breaker.go 54-57 without the test: the count is never zeroed for age.
WindowLapsed_Never(sinceLast, window) == FALSE

\* breaker.go 55: "if time.Since(cb.lastFailure) > cb.failureWindow"
WindowLapsed(sinceLast, window) == sinceLast > window

\* breaker.go 33-72 on an enabled breaker with the given configuration:
\* the breaker afterwards, the value returned, and whether the call got to
\* line 60 and counted the failure.
RecordFailureCfg(cb, t, threshold, window, resetTimeout) ==
    IF cb.tripped /\ ~(t - cb.tripTime > resetTimeout)
    THEN [cb |-> cb, ret |-> TRUE, counted |-> FALSE]
    ELSE
      LET c1 == IF cb.tripped
                THEN [cb EXCEPT !.tripped = FALSE, !.failureCount = 0]
                ELSE cb
          c2 == IF WindowLapsed(t - c1.lastFailure, window)
                THEN [c1 EXCEPT !.failureCount = 0] ELSE c1
          c3 == [c2 EXCEPT !.failureCount = @ + 1, !.lastFailure = t]
      IN IF c3.failureCount >= threshold
         THEN [cb |-> [c3 EXCEPT !.tripped = TRUE, !.tripTime = t],
               ret |-> TRUE, counted |-> TRUE]
         ELSE [cb |-> c3, ret |-> FALSE, counted |-> TRUE]

\* breaker.go 75-91 on an enabled breaker.
IsOpenCfg(cb, t, resetTimeout) ==
    IF cb.tripped /\ t - cb.tripTime > resetTimeout
    THEN [cb |-> [cb EXCEPT !.tripped = FALSE, !.failureCount = 0], ret |-> FALSE]
    ELSE [cb |-> cb, ret |-> cb.tripped]

\* Time passes.
SwTick ==
    /\ swNow + SwStep <= SwMaxTime
    /\ swNow' = swNow + SwStep
    /\ swLast' = NoSwCall
    /\ UNCHANGED <<swCb, swFails,
                   poolVars, idVars, nonceVars, rmVars, nmVars, bkVars, ffVars, flVars, feVars, lkVars, tpVars, srVars, dlVars>>

\* A call of cb.RecordFailure().
SwRecordFailure ==
    /\ Len(swFails) < MaxSwFailures
    /\ LET r == RecordFailureCfg(swCb, swNow, SwThreshold, SwWindow, SwReset)
       IN /\ swCb' = r.cb
          /\ swFails' = IF r.counted THEN Append(swFails, swNow) ELSE swFails
          /\ swLast' = [op |-> "RecordFailure", ret |-> r.ret, counted |-> r.counted,
                        autoClosed |-> swCb.tripped /\ r.counted]
    /\ UNCHANGED <<swNow,
                   poolVars, idVars, nonceVars, rmVars, nmVars, bkVars, ffVars, flVars, feVars, lkVars, tpVars, srVars, dlVars>>

\* A call of cb.IsOpen().
SwIsOpen ==
    /\ LET r == IsOpenCfg(swCb, swNow, SwReset)
       IN /\ swCb' = r.cb
          /\ swLast' = [op |-> "IsOpen", ret |-> r.ret, counted |-> FALSE,
                        autoClosed |-> swCb.tripped /\ ~r.ret]
    /\ UNCHANGED <<swNow, swFails,
                   poolVars, idVars, nonceVars, rmVars, nmVars, bkVars, ffVars, flVars, feVars, lkVars, tpVars, srVars, dlVars>>

\* A call of cb.Reset().
SwResetCall ==
    /\ swCb' = Reset(swCb)
    /\ swLast' = [op |-> "Reset", ret |-> FALSE, counted |-> FALSE,
                  autoClosed |-> FALSE]
    /\ UNCHANGED <<swNow, swFails,
                   poolVars, idVars, nonceVars, rmVars, nmVars, bkVars, ffVars, flVars, feVars, lkVars, tpVars, srVars, dlVars>>

\* ------------------------------------------------------------ specification

\* The worker pool before Start has polled, for the parts of the model
\* that leave it alone.
PoolIdle == PoolInit /\ cbEnabled

\* The intent-id part and the nonce manager at rest.
IdIdle == idOrig = <<>> /\ idQueue = <<>> /\ idPassed = NoHash

Init == PoolInit /\ IdIdle /\ NonceInit /\ RmInit /\ NmInit /\ BkInit /\ FfIdle /\ FlIdle /\ FeIdle /\ LkInit /\ TpInit /\ SrIdle /\ DlIdle /\ SwIdle

Next ==
    \/ Tick
    \/ Cancel
    \/ \E c \in Chains : HealthReset(c)
    \/ StartTick
    \/ StartSend
    \/ StartShutdown
    \/ StartReturn
    \/ \E w \in Workers : WorkerExit(w)
    \/ \E w \in Workers : WorkerChannelClosed(w)
    \/ \E w \in Workers : WorkerSkip(w)
    \/ \E w \in Workers : WorkerFulfill(w)
    \/ \E w \in Workers : WorkerSuccess(w)
    \/ \E w \in Workers : WorkerFailure(w)
    \/ \E w \in Workers : WorkerSendRetry(w)
    \/ RetryHandlerExit
    \/ RetryHandlerReceive
    \/ RetryHandlerTick
    \/ RetryHandlerKeep
    \/ RetryHandlerDispatch
    \/ RetryHandlerPanic
    \/ RetryHandlerDrop

vars == <<poolVars, idVars, nonceVars, rmVars, nmVars, bkVars, ffVars, flVars, feVars, lkVars, tpVars, srVars, dlVars, swVars>>

\* The orchestrator, the workers, the retry handler and the breakers.
Spec == Init /\ [][Next]_vars

IdSpecInit == PoolIdle /\ IdInit /\ NonceInit /\ RmInit /\ NmInit /\ BkInit /\ FfIdle /\ FlIdle /\ FeIdle /\ LkInit /\ TpInit /\ SrIdle /\ DlIdle /\ SwIdle

IdNext == IdFulfill \/ IdRetry

\* One intent id through its attempts and retries.
IdSpec == IdSpecInit /\ [][IdNext]_vars

NonceSpecInit == PoolIdle /\ IdIdle /\ NonceInit /\ RmInit /\ NmInit /\ BkInit /\ FfIdle /\ FlIdle /\ FeIdle /\ LkInit /\ TpInit /\ SrIdle /\ DlIdle /\ SwIdle

NonceNext ==
    \/ NonceStale
    \/ \E c \in Callers : ApproveGetNonce(c)
    \/ \E c \in Callers : ApproveSubmit(c)
    \/ \E c \in Callers : ApproveMined(c)
    \/ \E c \in Callers : FulfillGetNonce(c)
    \/ \E c \in Callers : FulfillSubmit(c)
    \/ \E c \in Callers : FulfillMined(c)

\* Concurrent fulfillIntent calls on one chain and its nonce manager.
NonceSpec == NonceSpecInit /\ [][NonceNext]_vars

RmSpecInit == PoolIdle /\ IdIdle /\ NonceInit /\ RmInit /\ NmInit /\ BkInit /\ FfIdle /\ FlIdle /\ FeIdle /\ LkInit /\ TpInit /\ SrIdle /\ DlIdle /\ SwIdle

RmNext ==
    \/ Tick
    \/ Cancel
    \/ \E w \in Workers : RmScheduleRetry(w)
    \/ RmProcessRetryJobs
    \/ RmHandlerExit

\* Workers handing jobs to the RetryManager while its handler runs.  The
\* handler goroutine is scheduled as long as it can take a step.
RmSpec == RmSpecInit /\ [][RmNext]_vars /\ WF_vars(RmProcessRetryJobs \/ RmHandlerExit)

NmSpecInit == PoolIdle /\ IdIdle /\ NonceInit /\ RmInit /\ NmInit /\ BkInit /\ FfIdle /\ FlIdle /\ FeIdle /\ LkInit /\ TpInit /\ SrIdle /\ DlIdle /\ SwIdle

NmNext ==
    \/ \E c \in Callers : NmGetNonce(c)
    \/ \E c \in Callers : NmTrackTransaction(c)
    \/ \E c \in Callers : NmMarkTransactionConfirmed(c)
    \/ \E c \in Callers : NmMarkTransactionFailed(c)

\* Callers of the NonceManager of pkg/fulfiller/nonce.go on one chain.
NmSpec == NmSpecInit /\ [][NmNext]_vars

BkSpecInit == PoolInit /\ IdIdle /\ NonceInit /\ RmInit /\ NmInit /\ BkInit /\ FfIdle /\ FlIdle /\ FeIdle /\ LkInit /\ TpInit /\ SrIdle /\ DlIdle /\ SwIdle

BkNext ==
    \/ BkTick
    \/ \E c \in Callers : BkCall(c)
    \/ \E c \in Callers : BkLock(c)
    \/ \E c \in Callers : BkStep(c)
    \/ \E c \in Callers : BkReturn(c)

\* Goroutines calling RecordFailure, IsOpen and Reset on one breaker.
BkSpec == BkSpecInit /\ [][BkNext]_vars

QueueSpecInit == PoolIdle /\ IdIdle /\ NonceInit /\ RmInit /\ NmInit /\ BkInit /\ FfIdle /\ FlIdle /\ FeIdle /\ LkInit /\ TpInit /\ SrIdle /\ DlIdle /\ SwIdle

QueueNext ==
    \/ Tick
    \/ QueueSend
    \/ RetryHandlerReceiveAt(QueueCap)

\* The retry handler taking jobs off s.retryJobs into a retry queue of
\* capacity QueueCap, with no tick to drain it.
QueueSpec == QueueSpecInit /\ [][QueueNext]_vars

TickSpecInit == TickInit /\ IdIdle /\ NonceInit /\ RmInit /\ NmInit /\ BkInit /\ FfIdle /\ FlIdle /\ FeIdle /\ LkInit /\ TpInit /\ SrIdle /\ DlIdle /\ SwIdle

TickNext ==
    \/ Tick
    \/ RetryHandlerTick
    \/ RetryHandlerKeep
    \/ RetryHandlerDispatch
    \/ RetryHandlerDrop
    \/ \E w \in Workers : WorkerFulfill(w)
    \/ \E w \in Workers : WorkerSuccess(w)

\* The retry handler's wakes over a queue longer than its per-wake limit,
\* with workers taking the dispatched intents.
TickSpec == TickSpecInit /\ [][TickNext]_vars

FfSpecInit ==
    PoolIdle /\ IdIdle /\ NonceInit /\ RmInit /\ NmInit /\ BkInit /\ FfInit /\ FlIdle /\ FeIdle /\ LkInit /\ TpInit /\ SrIdle /\ DlIdle /\ SwIdle

FfNext ==
    \/ Tick
    \/ FfBegin
    \/ FfCheckAllowance
    \/ FfApproveSubmit
    \/ FfApproveMined
    \/ FfFulfillSubmit
    \/ FfFulfillMined

\* One goroutine calling fulfillIntent for the same intent, again and again.
FfSpec == FfSpecInit /\ [][FfNext]_vars

FlSpecInit ==
    PoolIdle /\ IdIdle /\ NonceInit /\ RmInit /\ NmInit /\ BkInit /\ FfIdle /\ FlInit /\ FeIdle /\ LkInit /\ TpInit /\ SrIdle /\ DlIdle /\ SwIdle

FlNext ==
    \/ Tick
    \/ FlRun

\* The filter called poll after poll on one batch.
FlSpec == FlSpecInit /\ [][FlNext]_vars

FeSpecInit ==
    PoolIdle /\ IdIdle /\ NonceInit /\ RmInit /\ NmInit /\ BkInit /\ FfIdle /\ FlIdle /\ FeInit /\ LkInit /\ TpInit /\ SrIdle /\ DlIdle /\ SwIdle

\* The steps of the goroutine run.
FeRun ==
    \/ FeFetch
    \/ FePublish
    \/ FeSelect
    \/ FeTickerCase
    \/ FeStopCase

FeNext ==
    \/ FeFetch
    \/ FePublish
    \/ FeSelect
    \/ FeTickerCase
    \/ FeStopCase
    \/ FeStop
    \/ ObGetCurrentGasPrice
    \/ ObGetStoredTokenPriceUSD
    \/ ObGetWithdrawFeeUSD

\* The goroutine is scheduled; select takes a case that is ready again and
\* again, since it chooses among the ready cases at random.
FeSpec ==
    /\ FeSpecInit
    /\ [][FeNext]_vars
    /\ WF_vars(FeRun)
    /\ SF_vars(FeStopCase)

LkSpecInit ==
    PoolIdle /\ IdIdle /\ NonceInit /\ RmInit /\ NmInit /\ BkInit /\ FfIdle /\ FlIdle /\ FeIdle /\ LkInit /\ TpInit /\ SrIdle /\ DlIdle /\ SwIdle

LkNext ==
    \/ \E c \in Callers : LkLock(c)
    \/ \E c \in Callers : LkPendingNonceAt(c)
    \/ \E c \in Callers : LkAnswer(c)

\* Goroutines calling GetNonce of pkg/fulfiller/nonce.go.
LkSpec == LkSpecInit /\ [][LkNext]_vars

TpSpecInit ==
    PoolIdle /\ IdIdle /\ NonceInit /\ RmInit /\ NmInit /\ BkInit /\ FfIdle /\ FlIdle /\ FeIdle /\ LkInit /\ TpInit /\ SrIdle /\ DlIdle /\ SwIdle

TpNext ==
    \/ TpTick
    \/ \E id \in TokenIDs : TpGet(id)
    \/ \E id \in TokenIDs, price \in 1..MaxCachedPrice : TpSet(id, price)
    \/ TpClear

\* Callers of one TokenPriceCache.
TpSpec == TpSpecInit /\ [][TpNext]_vars

SrSpecInit ==
    PoolIdle /\ IdIdle /\ NonceInit /\ RmInit /\ NmInit /\ BkInit /\ FfIdle /\ FlIdle /\ FeIdle /\ LkInit /\ TpInit /\ SrInit /\ DlIdle /\ SwIdle

SrNext == FetchPendingIntents

\* Callers of one srunclient.Client.
SrSpec == SrSpecInit /\ [][SrNext]_vars

DlSpecInit ==
    PoolIdle /\ IdIdle /\ NonceInit /\ RmInit /\ NmInit /\ BkInit /\ FfIdle /\ FlIdle /\ FeIdle /\ LkInit /\ TpInit /\ SrIdle /\ DlInit /\ SwIdle

DlNext ==
    \/ \E n \in 1..MaxDlBatch : DlStartTick(n)
    \/ DlStartSend
    \/ \E w \in Workers : DlWorkerReceive(w)
    \/ \E w \in Workers : DlWorkerDone(w)
    \/ \E w \in Workers : DlWorkerSendRetry(w)
    \/ DlRhReceive
    \/ DlRhTick
    \/ DlRhLook
    \/ DlRhSend

\* Start, the workers and the retry handler on pendingJobs and retryJobs.
DlSpec == DlSpecInit /\ [][DlNext]_vars

SwSpecInit ==
    PoolIdle /\ IdIdle /\ NonceInit /\ RmInit /\ NmInit /\ BkInit /\ FfIdle /\ FlIdle /\ FeIdle /\ LkInit /\ TpInit /\ SrIdle /\ DlIdle /\ SwInit

SwNext ==
    \/ SwTick
    \/ SwRecordFailure
    \/ SwIsOpen
    \/ SwResetCall

\* Callers of one CircuitBreaker as time passes.
SwSpec == SwSpecInit /\ [][SwNext]_vars

\* ------------------------------------------------------------------ claims

\* C1: at most one fulfillIntent runs at any moment for a base intent id:
\* no two workers are inside fulfillIntent with intents of the same base id.
C1_NoConcurrentFulfill ==
    \A w1, w2 \in Workers :
        (w1 # w2 /\ wpc[w1] = "fulfilling" /\ wpc[w2] = "fulfilling")
            => BaseID(wIntent[w1].ID) # BaseID(wIntent[w2].ID)

\* C2: the nonces given to TrackTransaction come in strictly increasing
\* order, but for a nonce that a MarkTransactionFailed of the lowest pending
\* nonce released, which may come once more.
C2_TrackedStrictlyIncreasing == trackedInOrder

\* C3: after cancellation Start returns in every execution: once Start is
\* in wg.Wait() and every worker and the retry handler have returned, the
\* in-flight counter is zero; otherwise nothing is left to bring it to zero
\* and Start never returns.
C3_StartReturnsAfterCancel ==
    (/\ cancelled
     /\ startPc = "waiting"
     /\ \A w \in Workers : wpc[w] = "exited"
     /\ rhPc = "exited")
        => wg = 0

\* C4: the retry handler dispatches intents of one base id at most 3 times
\* in all, over every retry chain of that base id.
C4_AtMostThreeDispatches ==
    \A b \in ApiIds : dispatched[b] <= MaxRetryCount

\* Whether the breaker of chain c is tripped and its reset timeout has not
\* elapsed at the present time.
WithinTrip(c) ==
    /\ circuitBreakers[c].tripped
    /\ ~(now - circuitBreakers[c].tripTime > ResetTimeout)

\* C5: once RecordFailure has returned true for a chain and Reset has not
\* been called since, IsOpen returns true for as long as no more than the
\* reset timeout has elapsed since tripTime, whatever else ran in between.
C5_TrippedStaysOpen ==
    \A c \in Chains :
        (cbArmed[c] /\ ~(now - circuitBreakers[c].tripTime > ResetTimeout))
            => IsOpen(circuitBreakers[c], cbEnabled, now).ret

\* C5's case: a breaker that tripped, was hit by further failures or calls,
\* and is read exactly resetTimeout after its tripTime.
C5_Witness ==
    \E c \in Chains :
        /\ cbArmed[c]
        /\ now - circuitBreakers[c].tripTime = ResetTimeout
        /\ lastOp.op = "failed"

C7_SkipOnOpenBreaker ==
    [][(/\ pendingJobs # <<>>
        /\ pendingJobs' = Tail(pendingJobs)
        /\ cbEnabled
        /\ WithinTrip(Head(pendingJobs).DestinationChain))
          => (/\ wpc' = wpc
              /\ wIntent' = wIntent
              /\ retryJobs' = retryJobs
              /\ retryQueue' = retryQueue
              /\ wJob' = wJob
              /\ wg' = wg - 1)]_vars

\* C7's case: a worker has just skipped an intent that came through the
\* retry path.
C7_Witness ==
    /\ lastOp.op = "skip"
    /\ lastOp.id # BaseID(lastOp.id)

\* The worker w has handed a job to the retry handler in this step: the job
\* is in the retryJobs channel or the worker is blocked sending it.
HandedToRetry(w) ==
    \/ Len(retryJobs') = Len(retryJobs) + 1
    \/ wpc'[w] = "sendRetry"

\* C10: a step in which a worker handles a failed fulfillIntent hands the
\* intent to the retry handler if and only if the error is retryable, the
\* RecordFailure of this failure did not return true, and the intent was
\* retried fewer than 3 times; a non-retryable error is never handed on.
C10_RetryIffRetryableAndNotTripped ==
    [][lastOp'.op = "failed"
          => (HandedToRetry(lastOp'.w)
                <=> (/\ lastOp'.retry
                     /\ ~lastOp'.tripped
                     /\ lastOp'.count < MaxRetryCount))]_vars

\* C10's case: a retryable failure whose RecordFailure tripped the breaker.
C10_Witness ==
    /\ lastOp.op = "failed"
    /\ lastOp.retry
    /\ lastOp.tripped

\* C11: a step in which a worker handles a fulfillIntent error leaves every
\* breaker as it was, and hands nothing to the retry handler, when the
\* message is one of the already-processed ones; for every other message,
\* retryable or permanent, the destination's breaker afterwards is what
\* one RecordFailure call makes of it.
C11_FailureRecordedUnlessAlreadyProcessed ==
    [][lastOp'.op \in {"already", "failed"}
          => IF ContainsAny(lastOp'.msg, AlreadyProcessedPhrases)
             THEN /\ circuitBreakers' = circuitBreakers
                  /\ ~HandedToRetry(lastOp'.w)
             ELSE \A c \in Chains :
                    circuitBreakers'[c] =
                        RecordFailure(circuitBreakers[c], cbEnabled, now).cb]_vars

\* C11's case: an already-processed error handled while the breaker holds
\* an earlier failure.
C11_Witness ==
    /\ lastOp.op = "already"
    /\ cbEnabled
    /\ circuitBreakers[137].failureCount = 1

\* Every intent ScheduleRetry can be given in the model, and every job it
\* can build from them at a clock reading.
RmGrow(S) ==
    S \cup {ScheduleRetry(i, e, 0).job.Intent :
               i \in {x \in S : ScheduleRetry(x, <<>>, 0).scheduled},
               e \in RmErrorTypes}

RmAllIntents == RmGrow(RmGrow(RmGrow({ApiIntent(id) : id \in ApiIds})))

RmJobs ==
    {ScheduleRetry(i, e, Instants[k]).job :
        i \in RmAllIntents, e \in RmErrorTypes, k \in 1..Len(Instants)}

InRetryJobs(j) == \E i \in 1..Len(rmRetryJobs) : rmRetryJobs[i] = j

\* C12: every RetryJob handed to the retry scheduler is eventually consumed
\* (taken off rm.retryJobs to be re-enqueued or dropped), as long as the
\* context is not cancelled.
C12_EveryJobConsumed ==
    \A j \in RmJobs : InRetryJobs(j) ~> (cancelled \/ ~InRetryJobs(j))

\* C13: MarkTransactionFailed sets the next nonce to the failed nonce if and
\* only if that nonce is the lowest pending one at the call, leaves it
\* unchanged otherwise, and removes the nonce from the pending set.
C13_FailedReusesLowestPending ==
    nmLast.op = "failed"
        => /\ nmStored = IF nmLast.nonce = nmLast.lowest
                         THEN nmLast.nonce ELSE nmLast.before
           /\ \A c \in Callers : nmPc[c] = "idle" => nmTxs[c] = NoNonce

\* C14: concurrent RecordFailure, IsOpen and Reset calls on one breaker are
\* linearizable: whenever cb.mu is free the breaker is the one that the
\* calls, run one at a time in the order they took the lock, leave behind,
\* and every call returns what it returns in that sequential run.
C14_Linearizable ==
    /\ bkMu = 0 => bkCb = linCb
    /\ \A c \in Callers : bkPc[c] = "returned" => bkRet[c] = linRet[c]

\* A RecordFailure that tripped the breaker has returned while another
\* call waits for the lock.
C14_Witness ==
    \E c, d \in Callers :
        /\ bkPc[c] = "returned" /\ bkOp[c] = "RecordFailure" /\ bkRet[c]
        /\ bkPc[d] = "lock"

\* The step at which caller c's RecordFailure takes effect on an enabled
\* breaker.
RecordFailureCalled(c) ==
    /\ cbEnabled
    /\ bkPc[c] = "lock" /\ bkPc'[c] = "s1"
    /\ bkOp[c] = "RecordFailure"

\* The call counted the failure: the counter, zeroed first when the breaker
\* auto-closed or the window lapsed, went up by one, lastFailure is now, and
\* the call returned true exactly when the counter reached the threshold,
\* leaving the breaker open with tripTime = now.
FailureCounted(c) ==
    LET base == IF linCb.tripped \/ now - linCb.lastFailure > FailureWindow
                THEN 0 ELSE linCb.failureCount
    IN /\ linCb'.failureCount = base + 1
       /\ linCb'.lastFailure = now
       /\ linRet'[c] <=> (linCb'.failureCount >= FailThreshold)
       /\ linRet'[c] => (linCb'.tripped /\ linCb'.tripTime = now)

\* C15 as stated: every RecordFailure call on an enabled breaker counts the
\* failure, sets lastFailure = now, and returns true exactly when the counter
\* after the increment is at or above the threshold, the breaker then open
\* with tripTime = now.
C15_EveryCallCounts ==
    [][\A c \in Callers : RecordFailureCalled(c) => FailureCounted(c)]_vars

\* C15 amended: a RecordFailure call on an enabled breaker that is open and
\* within its reset timeout returns true and changes nothing; every other
\* call counts the failure as stated.
C15_CountsUnlessStillOpen ==
    [][\A c \in Callers :
          RecordFailureCalled(c)
              => IF linCb.tripped /\ ~(now - linCb.tripTime > ResetTimeout)
                 THEN linCb' = linCb /\ linRet'[c]
                 ELSE FailureCounted(c)]_vars

\* Two RecordFailure calls have both returned true and the counter stands
\* at the threshold: one call tripped the breaker, the other found it open.
C15_Witness ==
    /\ cbEnabled
    /\ \E c, d \in Callers :
         /\ c # d
         /\ bkPc[c] = "returned" /\ bkOp[c] = "RecordFailure" /\ bkRet[c]
         /\ bkPc[d] = "returned" /\ bkOp[d] = "RecordFailure" /\ bkRet[d]
    /\ bkCb.failureCount = FailThreshold
    /\ bkCb.tripped

\* C16: from any breaker state Reset leaves the breaker closed with a zero
\* failure counter, so an IsOpen right after it returns false.  Stated for
\* the call run alone and for the breaker the concurrent call leaves when it
\* returns.
C16_ResetCloses ==
    [][\A c \in Callers :
          /\ (bkOp[c] = "Reset" /\ bkPc[c] = "lock" /\ bkPc'[c] = "s1")
                => /\ ~linCb'.tripped
                   /\ linCb'.failureCount = 0
                   /\ ~IsOpen(linCb', cbEnabled, now').ret
          /\ (bkOp[c] = "Reset" /\ bkPc[c] = "s2" /\ bkPc'[c] = "returned")
                => /\ ~bkCb'.tripped
                   /\ bkCb'.failureCount = 0
                   /\ ~IsOpen(bkCb', cbEnabled, now').ret]_vars

\* Reset has returned on a breaker that was tripped at this clock reading,
\* that is, open within its reset timeout.
C16_Witness ==
    /\ cbEnabled
    /\ \E c \in Callers : bkPc[c] = "returned" /\ bkOp[c] = "Reset"
    /\ bkCb.tripTime = now
    /\ ~bkCb.tripped

\* The job a worker's failure step hands to the retry handler: the one it
\* put on retryJobs, or the one it is blocked sending.
ScheduledJob(w) ==
    IF wpc'[w] = "sendRetry" THEN wJob'[w] ELSE retryJobs'[Len(retryJobs')]

C18_BackoffFollowsCarriedCount ==
    (rmCall.w # 0 /\ rmCall.carried < MaxRetryCount)
        => /\ rmCall.scheduled
           /\ rmCall.job.NextAttempt
                  = rmCall.at + Min((2 ^ rmCall.carried) * BackoffBase, MaxBackoff)

\* C19: the retry handler never puts a due retry job on pendingJobs while
\* the breaker of the job's destination chain is open.
C19_NoDispatchWhileBreakerOpen ==
    [][lastOp'.op = "dispatch"
          => \A c \in Chains :
                 ~IsOpen(circuitBreakers[c], cbEnabled, now).ret]_vars

C22_NoSubmitAboveCeiling ==
    [][ffRefreshed > ffMaxGasPrice /\ ffPc # "idle" => ffTxs' = ffTxs]_vars

\* Transactions of the kind sent by the calls so far.
FfSent(method) == {i \in DOMAIN ffTxs : ffTxs[i].method = method}

\* A fulfillIntent call is back to back with an approval when the contract
\* holds the unlimited allowance and every approve sent so far, the mined
\* one among them, was sent less than the cache's lifetime ago.
FfApprovalFresh ==
    /\ ffAllowance = maxUint256
    /\ FfSent("approve") # {}
    /\ \A i \in FfSent("approve") : now < ffTxs[i].at + AllowanceTTL

\* C23: once a call has had its approve(maxUint256) mined, a call made back
\* to back with it sends no approve: the two calls send one approve in all.
C23_OneApprove ==
    [][ffPc = "allowance" /\ ffPc' # "allowance" /\ FfApprovalFresh
          => /\ ffHasAllowance'
             /\ ffPc' = "fulfill"
             /\ ffTxs' = ffTxs]_vars

\* Both calls have returned nil, the first approved, the second did not.
C23_Witness ==
    /\ ffCalls = 2
    /\ ffRet = [returned |-> TRUE, err |-> <<>>]
    /\ Len(ffTxs) = 3
    /\ ffTxs[1].method = "approve" /\ ffTxs[1].call = 1
    /\ ffTxs[2].method = "fulfill" /\ ffTxs[2].call = 1
    /\ ffTxs[3].method = "fulfill" /\ ffTxs[3].call = 2
    /\ ffTxs[3].at < ffTxs[1].at + AllowanceTTL

\* The eight rejection predicates of the filter for the intent at position
\* i of the batch in call k, none of which holds: the breaker of the
\* destination is closed, the chains differ, the intent is fresh, the wallet
\* holds the converted amount, the fee parses, is positive, the destination
\* is configured, and the converted fee reaches the chain's minimum.
FlPassesEight(k, i) ==
    LET run == flLog[k]
        it == flIntents[i]
        fee == SetString(it.IntentFee)
        open == /\ it.DestinationChain \in DOMAIN run.cbs
                /\ IsOpen(run.cbs[it.DestinationChain], TRUE, run.t).ret
    IN /\ ~open
       /\ it.SourceChain # it.DestinationChain
       /\ run.t - it.CreatedAt <= MaxIntentAge
       /\ run.wallet.raw >= BscConvert(it, SetString(it.Amount).val)
       /\ fee.ok
       /\ fee.val > 0
       /\ it.DestinationChain \in FlChains
       /\ \/ FlMinFee(it.DestinationChain) = NoMinFee
          \/ BscConvert(it, fee.val) >= FlMinFee(it.DestinationChain)

\* The positions of a batch that satisfy a test, in order.
RECURSIVE FlPositions(_, _, _)
FlPositions(k, i, errs) ==
    IF i > Len(flIntents) THEN <<>>
    ELSE (IF i \notin errs /\ FlPassesEight(k, i) THEN <<i>> ELSE <<>>)
            \o FlPositions(k, i + 1, errs)

FlErrors(k) == {i \in DOMAIN flIntents : flLog[k].rpcs[i] # "ok"}

\* C24: a call of the filter in which the chain client answers every
\* question returns exactly the intents for which none of the eight
\* rejection predicates holds, each once and in input order.
C24_ExactlyTheViable ==
    \A k \in DOMAIN flLog :
        FlErrors(k) = {} => flLog[k].viable = FlPositions(k, 1, {})

\* What the call k would have returned had the chain client answered
\* every question.
FlWithoutErrors(k) ==
    FilterFrom(flIntents, 1, flLog[k].cbs,
               [i \in DOMAIN flIntents |-> "ok"], flLog[k].wallet, flLog[k].t).viable

\* C25: a chain-client error while one intent is evaluated makes the filter
\* leave out that intent and no other: the call returns what it would have
\* returned without the error, less the intents whose fetch failed; nothing
\* of the error is kept, so a later call is decided by its own answers.
C25_ErrorRejectsOnlyThatIntent ==
    \A k \in DOMAIN flLog :
        LET clean == FlWithoutErrors(k)
            Kept(i) == i \notin FlErrors(k)
        IN flLog[k].viable = SelectSeq(clean, Kept)

\* An intent refused in one poll because its balance fetch failed, with
\* the other intent of the batch accepted, is accepted in the next poll.
C25_Witness ==
    /\ Len(flLog) = 2
    /\ Len(flIntents) = 2
    /\ flLog[1].rpcs[1] # "ok"
    /\ flLog[1].viable = <<2>>
    /\ flLog[2].viable = <<1, 2>>

\* C26: the three values an observer has read through the getters are the
\* values one iteration published together (or the three initial values).
C26_ObserverSeesOneIteration ==
    obPc = "seen" => obSeen \in fePublished \cup {NoTriple}

\* C27: once Stop has been called the goroutine run eventually exits.
C27_StopEndsRun == feStopped ~> fePc = "exited"

\* C28: no task holds a lock while an RPC call of its own is in flight
\* (the fee-update loop's publish step makes no RPC call).
C28_NoLockAcrossRpc ==
    \A c \in Callers : lkPc[c] = "rpc" => lkMu # c

\* C29: Get(id) reports a hit exactly when an entry for id is stored and
\* no more than the TTL has passed since the most recent Set of id, and the
\* price of a hit is the one that Set stored.
C29_HitIffStoredAndFresh ==
    tpGot.tokenID \in TokenIDs
        => LET last == tpLastSet[tpGot.tokenID]
           IN /\ tpGot.found <=> (last.exists /\ tpGot.at - last.timestamp <= CacheTTL)
              /\ tpGot.found => tpGot.price = last.price

\* A Get exactly TTL after the second Set of the token found the second
\* price.
C29_Witness ==
    /\ tpGot.found
    /\ tpGot.at - tpLastSet[tpGot.tokenID].timestamp = CacheTTL
    /\ tpGot.price = 2

\* A worker takes the intent at the head of pendingJobs in this step.
JobTaken == pendingJobs # <<>> /\ pendingJobs' = Tail(pendingJobs)

\* Exactly the worker w starts fulfillIntent in this step, with the intent
\* taken.
StartsFulfill(w) ==
    /\ wpc[w] = "idle"
    /\ wpc' = [wpc EXCEPT ![w] = "fulfilling"]
    /\ wIntent' = [wIntent EXCEPT ![w] = Head(pendingJobs)]

\* C30 as stated: every intent taken off the job queue is passed to
\* fulfillIntent, by one worker; fulfillIntent is started for nothing
\* else, so no intent is lost and none is processed twice.
C30_EveryJobFulfilledOnce ==
    [][/\ JobTaken => \E w \in Workers : StartsFulfill(w)
       /\ \A w \in Workers :
            (wpc[w] # "fulfilling" /\ wpc'[w] = "fulfilling")
                => JobTaken /\ StartsFulfill(w)]_vars

\* C30 amended: every intent taken off the job queue is passed to
\* fulfillIntent by exactly one worker, unless the breaker of its
\* destination is open at that moment, in which case it is passed to none;
\* fulfillIntent is started for nothing but an intent just taken.
C30_FulfilledOnceUnlessBreakerOpen ==
    [][/\ JobTaken
            => IF cbEnabled /\ WithinTrip(Head(pendingJobs).DestinationChain)
               THEN wpc' = wpc /\ wIntent' = wIntent
               ELSE \E w \in Workers : StartsFulfill(w)
       /\ \A w \in Workers :
            (wpc[w] # "fulfilling" /\ wpc'[w] = "fulfilling")
                => JobTaken /\ StartsFulfill(w)]_vars

\* A worker has just started fulfillIntent for an intent it took while the
\* other worker is inside fulfillIntent.
C30_Witness ==
    /\ lastOp.op = "fulfill"
    /\ \E w \in Workers : w # lastOp.w /\ wpc[w] = "fulfilling"

\* The accepted response shapes: a bare array; an object with the array in
\* exactly one of intents, data and results and nothing else, with or
\* without pagination fields; a paginated object, whose total_count is the
\* number of intents it lists.
SrNamedFields(body) ==
    {f \in {"intents", "data", "results"} : Len(body[f]) > 0}

SrAcceptedShape(body) ==
    \/ body.kind = "array"
    \/ /\ body.kind = "object"
       /\ Cardinality(SrNamedFields(body)) <= 1
       /\ body.items = <<>>
       /\ body.paginated =>
            body.total_count = Len(body.intents) + Len(body.data) + Len(body.results)

\* The intents contained in a body of an accepted shape.
SrContained(body) ==
    IF body.kind = "array" THEN body.array
    ELSE IF SrNamedFields(body) = {} THEN <<>>
    ELSE body[CHOOSE f \in SrNamedFields(body) : TRUE]

\* C31: for a 200 response whose body has an accepted shape,
\* FetchPendingIntents returns without error exactly the intents the body
\* contains, so an empty list only when the body contains none.
C31_ReturnsTheIntentsOfTheBody ==
    (srGot.returned /\ srResp.status = 200 /\ SrAcceptedShape(srResp.body))
        => /\ ~srGot.err
           /\ srGot.intents = SrContained(srResp.body)

\* The same for paginated objects and bare arrays only: these the code
\* decodes as the body says.
C31_PaginatedOrArray ==
    (/\ srGot.returned /\ srResp.status = 200 /\ SrAcceptedShape(srResp.body)
     /\ srResp.body.kind = "object" => srResp.body.paginated)
        => /\ ~srGot.err
           /\ srGot.intents = SrContained(srResp.body)

\* The intents that hold a count of s.wg: those buffered in pendingJobs,
\* the one Start has counted and is sending, those inside fulfillIntent, a
\* worker blocked on its send to retryJobs (its intent and the retry job
\* it has counted), the jobs buffered in retryJobs and the jobs of the retry
\* queue, kept or not yet looked at by the running tick.
InFlight ==
    Len(pendingJobs)
    + (IF startPc = "sending" THEN 1 ELSE 0)
    + Cardinality({w \in Workers : wpc[w] = "fulfilling"})
    + 2 * Cardinality({w \in Workers : wpc[w] = "sendRetry"})
    + Len(retryJobs)
    + (IF rhPc = "loop"
       THEN Len(rhTick.remaining) + (Len(retryQueue) - rhTick.idx + 1)
       ELSE Len(retryQueue))

\* C32: the in-flight counter is balanced: it equals the number of intents
\* that are queued, in a worker or with the retry handler, so it is never
\* negative and is zero whenever there is none.
C32_CounterBalanced ==
    /\ wg = InFlight
    /\ wg >= 0
    /\ InFlight = 0 => wg = 0

\* An intent has gone its whole way (polled, failed in a worker, queued for
\* retry, dropped as no longer pending) and the counter is back at zero.
C32_Witness ==
    /\ lastOp.op = "drop"
    /\ wg = 0

\* C33: no task sends on a channel after it has been closed: the retry
\* handler is never at its send to pendingJobs (worker.go 275) with
\* close(s.pendingJobs) done, which is the panic of a send on a closed
\* channel.
C33_NoSendAfterClose ==
    /\ ~panicked
    /\ lastOp.op # "panic"

\* Every worker is blocked on its send to the full retryJobs while the retry
\* handler and Start are blocked on their sends to the full pendingJobs.
DlDeadlocked ==
    /\ \A w \in Workers : dlW[w].pc = "sendRetry"
    /\ Len(dlRetryChan) = RetryChanCap
    /\ dlRh = "sending"
    /\ dlStart = "sending"
    /\ Len(dlPending) = PendingCap

\* C34: Start, the workers and the retry handler never deadlock on the two
\* bounded channels: no state is reached in which all of them are blocked
\* on a send to a full channel.
C34_NoDeadlockOnQueues == ~DlDeadlocked

\* A fulfillIntent call holds the nonce GetNonce gave it for a transaction
\* that is not yet submitted or whose receipt has not come.
HoldsNonce(c) ==
    fpc[c] \in {"approveSubmit", "approveWait", "fulfillSubmit", "fulfillWait"}

\* C35: no nonce is held by two in-flight transactions at once: GetNonce
\* does not hand out a nonce that another call still holds, also after a
\* MarkTransactionFailed of the lowest pending nonce.
C35_NoNonceHeldTwice ==
    \A c1, c2 \in Callers :
        (c1 # c2 /\ HoldsNonce(c1) /\ HoldsNonce(c2)) => fNonce[c1] # fNonce[c2]

\* The last RecordFailure call counted its failure and tripped the breaker.
SwTrippedNow ==
    /\ swLast.op = "RecordFailure"
    /\ swLast.counted
    /\ swLast.ret

\* The failures counted within the window that ends now.
SwInWindow == {i \in DOMAIN swFails : swNow - swFails[i] <= SwWindow}

C37_FailedProbeRetrips ==
    [][(/\ swLast'.op = "RecordFailure"
        /\ \/ swLast'.autoClosed
           \/ swLast.op = "IsOpen" /\ swLast.autoClosed)
          => swCb'.tripped]_vars

\* C38: a failed gas-price or token-price fetch in one iteration of the
\* fee-update loop is recovered locally: run leaves its loop only on the
\* stop signal, so whenever run exits, Stop has closed the stop channel.
C38_RunExitsOnlyOnStop ==
    [][(fePc # "exited" /\ fePc' = "exited") => feClosed]_vars

\* C39: the filter's balance predicate compares base units with base units:
\* in a call where the chain client answered for the intent and its amount
\* parses, the intent is left out when the wallet's raw balance is below the
\* converted amount, and an intent that the other seven predicates pass and
\* whose converted amount is at most the raw balance is returned.
C39_BalanceComparedInBaseUnits ==
    \A k \in DOMAIN flLog : \A i \in DOMAIN flIntents :
        LET run == flLog[k]
            it == flIntents[i]
            a == SetString(it.Amount)
            returned == \E j \in DOMAIN run.viable : run.viable[j] = i
        IN (run.rpcs[i] = "ok" /\ a.ok)
              => /\ run.wallet.raw < BscConvert(it, a.val) => ~returned
                 /\ FlPassesEight(k, i) => returned

\* C40: a retried intent keeps its base id: for every RetryJob the
\* RetryManager has queued or is sending, at every retry depth, the part of
\* the job's intent id before the retry tag is the id the API gave.
C40_RetryKeepsBaseId ==
    /\ \A i \in 1..Len(rmRetryJobs) :
          BaseID(rmRetryJobs[i].Intent.ID) = rmRetryJobs[i].Intent.orig
    /\ \A w \in Workers :
          rmSending[w] # NoRmJob
             => BaseID(rmSending[w].Intent.ID) = rmSending[w].Intent.orig

\* The same for the ids the worker of worker.go writes ("<base>_retry_<n>"
\* from parts[0]): the queue id's base is the id the API gave.
C40_WorkerKeepsBaseId == BaseID(idQueue) = idOrig

\* C8: every nonce a fulfillIntent call reserved has been marked failed or
\* confirmed when the call returns.
C8_NoNonceLeftUnmarked == leaked = {}

\* C9: the bytes32 passed to the contract's Fulfill is that of the intent's
\* original id, retry tag or not.
C9_PassedIdIsOriginal ==
    idPassed # NoHash => idPassed = HexToHash(idOrig)

\* C9's case: an id with an odd number of hex digits, on its second retry.
C9_Witness ==
    /\ idPassed # NoHash
    /\ idQueue # idOrig
    /\ RetryCountOf(idQueue) = 2
    /\ Len(FromHex(idOrig)) = 2
    /\ Len(idOrig) = 5

====
